---- MODULE Spec2Model ----
(***************************************************************************)
(* Sentiment aggregation and time-series merge engine of the stock news    *)
(* analyzer.                                                               *)
(*                                                                         *)
(* Part 1: TimeSeriesManager.update_daily_scores (the wide per-company,    *)
(*         per-date history table kept in a CSV file).                     *)
(*                                                                         *)
(* Scores are fixed-point numbers: inputs are thousandths (505 stands for  *)
(* 0.505), table cells are hundredths (51 stands for 0.51) and Null (-1)   *)
(* stands for an empty cell / NaN.                                         *)
(***************************************************************************)
EXTENDS Integers, Sequences, FiniteSets, TLC

VARIABLES
    codesFile,      \* the company code table (company_codes.csv)
    historyFile,    \* the persisted history (sentiment_history.csv)
    lastCall,       \* log of the update_daily_scores call that ran last
    calls,          \* number of update_daily_scores calls so far
    run,            \* two pipeline runs that are not serialized: where each stands
    saves,          \* the runs that wrote the history file, in the order they wrote
    phase,          \* analyze_data: the stage the analysis phase is in
    newsDf,         \* news_df: the article table, column by column
    pool,           \* the futures of the stage's ThreadPoolExecutor, one per item
    sub,            \* the two futures of each process_row_task
    results,        \* the stage's results dict
    completed,      \* the stage's completed counter
    name2code,      \* CompanyAnalyzer.name2code
    finbert_pipe,   \* SentimentAnalyzer.finbert_pipe: TRUE once the model is loaded
    expandedDf,     \* expanded_df: one row per article and company
    companyStats,   \* company_stats
    input,          \* a pure function under evaluation: its name and arguments
    output,         \* what the function returned, once it was applied
    statsFile,      \* the per-company statistics (company_sentiment_stats.csv)
    mailbox         \* the e-mails send_email was asked to send

tsVars == <<codesFile, historyFile, lastCall, calls>>
raceVars == <<run, saves>>
fnVars == <<input, output>>
outVars == <<statsFile, mailbox>>
batchVars == <<phase, newsDf, pool, sub, results, completed,
               name2code, finbert_pipe, expandedDf, companyStats>>
vars == <<codesFile, historyFile, lastCall, calls, run, saves,
          phase, newsDf, pool, sub, results, completed,
          name2code, finbert_pipe, expandedDf, companyStats, input, output,
          statsFile, mailbox>>

(***************************************************************************)
(* Bounds of the model.                                                    *)
(***************************************************************************)
MaxCalls == 2       \* merges per behaviour
NumArticles == 2    \* most articles loaded by one analysis
MaxMentions == 3    \* most mentions in the company clause of one text

Null == -1

\* Rows of company_codes.csv (company_name, stock_code), in listing order.
RefList ==
    << [company_name |-> "Alpha", stock_code |-> "1111"],
       [company_name |-> "Beta",  stock_code |-> "2222"] >>

\* Date keys (YYYYMMDD column names).
Dates == {"20240102", "20240103"}

\* avg_weighted_score values of today's records, in thousandths.
ScoreVals == {0, 505}

Range(s) == {s[i] : i \in 1..Len(s)}

\* Sequences over S of length at most n.
SeqsUpTo(S, n) == UNION {[1..k -> S] : k \in 0..n}

\* The subsequence of s at the positions in I.
RECURSIVE SubSeqAt(_, _)
SubSeqAt(s, I) ==
    IF s = <<>> THEN <<>>
    ELSE LET rest == SubSeqAt(Tail(s), {i - 1 : i \in I \ {1}})
         IN  IF 1 \in I THEN <<Head(s)>> \o rest ELSE rest

\* The code tables the runs may find: any non-empty part of the listing.
RefTables == {SubSeqAt(RefList, I) : I \in (SUBSET (1..Len(RefList))) \ {{}}}

\* f"{row['company_name']}({row['stock_code']})"
CompanyKey(row) == row.company_name \o "(" \o row.stock_code \o ")"

AllKeys == {CompanyKey(RefList[i]) : i \in 1..Len(RefList)}

\* base_df: one 'company' column holding the key of every row of the code table.
BaseDf(rows) == [i \in 1..Len(rows) |-> CompanyKey(rows[i])]

(***************************************************************************)
(* round(float(x), 2) on a score of three decimals.  Python rounds the     *)
(* binary double nearest to x/1000, so a trailing 5 goes up or down with   *)
(* the sign of the representation error (0.505 -> 0.51, 0.125 -> 0.12).    *)
(***************************************************************************)
TiesRoundedDown ==
    { 15, 45, 75, 105, 125, 145, 155, 175, 185, 205, 215, 235, 245, 285, 295,
      305, 345, 355, 365, 415, 425, 435, 475, 485, 495, 565, 575, 585, 595,
      605, 615, 625, 695, 705, 715, 725, 735, 745, 815, 825, 835, 845, 855,
      865, 945, 955, 965, 975, 985, 995 }

Round2(x) ==
    LET q == x \div 10
        r == x % 10
    IN  IF r < 5 THEN q
        ELSE IF r > 5 THEN q + 1
        ELSE IF x \in TiesRoundedDown THEN q ELSE q + 1

(***************************************************************************)
(* Data frames.  A table is a list of column names (after 'company') and a *)
(* list of rows; a row holds its company key and one cell per column.      *)
(***************************************************************************)
NullCells(cols) == [d \in Range(cols) |-> Null]

\* base_df.copy(): every reference key, no date column.
BaseTable(base) ==
    [cols |-> <<>>,
     rows |-> [i \in 1..Len(base) |-> [company |-> base[i], cells |-> NullCells(<<>>)]]]

\* DataFrame.to_csv(index=False): a header line, then one line of fields per row
\* in column order; an empty field for a null cell.
ToCsv(df) ==
    [header |-> <<"company">> \o df.cols,
     lines  |-> [i \in 1..Len(df.rows) |->
                    <<df.rows[i].company>> \o
                    [j \in 1..Len(df.cols) |-> df.rows[i].cells[df.cols[j]]]]]

\* pd.read_csv: the header names the columns, each line gives a row by position.
ReadCsv(csv) ==
    LET cols == Tail(csv.header)
        Col(d) == CHOOSE j \in 1..Len(cols) : cols[j] = d
    IN  [cols |-> cols,
         rows |-> [i \in 1..Len(csv.lines) |->
                     [company |-> csv.lines[i][1],
                      cells   |-> [d \in Range(cols) |-> csv.lines[i][Col(d) + 1]]]]]

NoCsv == [header |-> <<>>, lines |-> <<>>]
AbsentFile == [exists |-> FALSE, readable |-> FALSE, csv |-> NoCsv]
SavedFile(df) == [exists |-> TRUE, readable |-> TRUE, csv |-> ToCsv(df)]

(***************************************************************************)
(* update_daily_scores, step by step.                                      *)
(***************************************************************************)

\* daily_stats_df: the name of its score column and its rows (company, score).
ScoreColumns == {"avg_weighted_score", "final_score", "none"}

\* Up to one record per company of the universe, in any order, a company possibly
\* repeated with another score.
DailyRows == SeqsUpTo([company : AllKeys, score : ScoreVals], Cardinality(AllKeys))

\* CompanyAnalyzer hands over avg_weighted_score; the other two shapes are the
\* compatibility branch and its early return.
DailyStats ==
    [scoreCol : {"avg_weighted_score"}, rows : DailyRows]
    \cup [scoreCol : {"final_score", "none"},
          rows : {r \in DailyRows : Len(r) = 1 /\ r[1].score # 0}]

\* Step 2: today's data.  An empty (or missing) frame becomes an empty frame with
\* the columns 'company' and 'final_score'; otherwise the score column is looked up
\* and renamed to 'score'.  found = FALSE is the early return of the handler.
TodayData(daily) ==
    IF daily.rows = <<>>
    THEN [found |-> TRUE, hasScore |-> FALSE, rows |-> <<>>]
    ELSE IF daily.scoreCol = "none"
    THEN [found |-> FALSE, hasScore |-> FALSE, rows |-> <<>>]
    ELSE [found |-> TRUE, hasScore |-> TRUE, rows |-> daily.rows]

\* A merge that always starts from a fresh table.
LoadHistoryFresh(file, base) == BaseTable(base)

\* Step 3: read the history file, or start from base_df.
LoadHistory(file, base) ==
    IF file.exists /\ file.readable THEN ReadCsv(file.csv) ELSE BaseTable(base)

\* pd.merge(base_df, history_df, on='company', how='left'): for every row of
\* base_df in order, every history row of that company, or one row of nulls.
RECURSIVE LeftJoinRows(_, _)
LeftJoinRows(base, hist) ==
    IF base = <<>> THEN <<>>
    ELSE LET k == Head(base)
             m == SelectSeq(hist.rows, LAMBDA r : r.company = k)
         IN  (IF m = <<>>
              THEN <<[company |-> k, cells |-> NullCells(hist.cols)]>>
              ELSE m)
             \o LeftJoinRows(Tail(base), hist)

\* A join that keeps the columns of the history table and none of its values.
LeftJoinNoValues(base, hist) ==
    [cols |-> hist.cols,
     rows |-> [i \in 1..Len(base) |-> [company |-> base[i], cells |-> NullCells(hist.cols)]]]

\* An outer join: the rows of the left join, then the history rows of the
\* companies that are not in base_df.
OuterJoin(base, hist) ==
    [cols |-> hist.cols,
     rows |-> LeftJoinRows(base, hist)
              \o SelectSeq(hist.rows, LAMBDA r : r.company \notin Range(base))]

LeftJoin(base, hist) == [cols |-> hist.cols, rows |-> LeftJoinRows(base, hist)]

\* drop_duplicates(subset=['company'], keep='last').
DropDuplicatesKeepLast(rows) ==
    LET kept == SelectSeq([i \in 1..Len(rows) |-> i],
                          LAMBDA i : \A j \in (i + 1)..Len(rows) :
                                        rows[j].company # rows[i].company)
    IN  [n \in 1..Len(kept) |-> rows[kept[n]]]

\* today_data.drop_duplicates(subset=['company']): the first row of each company.
DropDuplicates(rows) ==
    LET kept == SelectSeq([i \in 1..Len(rows) |-> i],
                          LAMBDA i : \A j \in 1..(i - 1) : rows[j].company # rows[i].company)
    IN  [n \in 1..Len(kept) |-> rows[kept[n]]]

\* today_data.set_index('company')['score'].to_dict(): a dict, so a later row of
\* a company would replace an earlier one.
ToDict(rows) ==
    [k \in {rows[i].company : i \in 1..Len(rows)} |->
        LET last == CHOOSE i \in 1..Len(rows) :
                        /\ rows[i].company = k
                        /\ \A j \in (i + 1)..Len(rows) : rows[j].company # k
        IN  rows[last].score]

TodayMap(rows) == ToDict(DropDuplicates(rows))

\* merged_df[date_str] = merged_df['company'].map(today_map), then the rounding
\* lambda: a mapped score is rounded to two decimals, anything else is None.
DateCell(company, todayMap) ==
    IF company \in DOMAIN todayMap THEN Round2(todayMap[company]) ELSE Null

\* A merge that updates an existing date column incrementally: today's score is
\* added to the score already there.
SetDateColumnAdding(df, date, todayMap) ==
    LET cols == IF date \in Range(df.cols) THEN df.cols ELSE Append(df.cols, date)
        Old(i) == IF date \in Range(df.cols) THEN df.rows[i].cells[date] ELSE Null
        New(i) == DateCell(df.rows[i].company, todayMap)
    IN  [cols |-> cols,
         rows |-> [i \in 1..Len(df.rows) |->
                     [company |-> df.rows[i].company,
                      cells   |-> [d \in Range(cols) |->
                                     IF d # date THEN df.rows[i].cells[d]
                                     ELSE IF Old(i) # Null /\ New(i) # Null
                                     THEN Old(i) + New(i)
                                     ELSE New(i)]]]]

\* Assigning a column: an existing name keeps its place, a new one goes last.
SetDateColumn(df, date, todayMap) ==
    LET cols == IF date \in Range(df.cols) THEN df.cols ELSE Append(df.cols, date)
    IN  [cols |-> cols,
         rows |-> [i \in 1..Len(df.rows) |->
                     [company |-> df.rows[i].company,
                      cells   |-> [d \in Range(cols) |->
                                     IF d = date
                                     THEN DateCell(df.rows[i].company, todayMap)
                                     ELSE df.rows[i].cells[d]]]]]

\* Steps 1 to 4 of the handler: everything up to the table that is to be saved.
\* outcome "merged" carries the table; every other outcome leaves the file alone.
MergeDaily(codes, file, daily, date) ==
    LET today == TodayData(daily)
        base  == BaseDf(codes.rows)
        none  == BaseTable(<<>>)
    IN  IF ~codes.exists THEN [outcome |-> "no_codes", df |-> none]
        ELSE IF ~codes.readable THEN [outcome |-> "codes_error", df |-> none]
        ELSE IF ~today.found THEN [outcome |-> "no_score_column", df |-> none]
        ELSE IF ~today.hasScore THEN [outcome |-> "KeyError", df |-> none]
        ELSE [outcome |-> "merged",
              df |-> SetDateColumn(LeftJoin(base, LoadHistory(file, base)),
                                   date, TodayMap(today.rows))]

\* Step 5: merged_df.to_csv(history_file); a failing write is logged and the file
\* stays as it was.
SaveHistory(file, merged, saveOk) ==
    IF merged.outcome # "merged" THEN [outcome |-> merged.outcome, file |-> file]
    ELSE IF saveOk THEN [outcome |-> "saved", file |-> SavedFile(merged.df)]
    ELSE [outcome |-> "save_failed", file |-> file]

(***************************************************************************)
(* The serialized system: one merge at a time, as the operator is asked to *)
(* run it, and an environment that edits or damages the two files between  *)
(* merges.                                                                 *)
(***************************************************************************)
NoDaily == [scoreCol |-> "none", rows |-> <<>>]

NoCall ==
    [called |-> FALSE, date |-> "", daily |-> NoDaily, before |-> AbsentFile,
     outcome |-> "", repeat |-> FALSE]

CodesTable(rows) == [exists |-> TRUE, readable |-> TRUE, rows |-> rows]

\* The two unserialized runs of the second system below; idle in the first.
Runs == {1, 2}

\* The analysis phase of the third system below; not started in the first two.
NoTable == [news |-> <<>>, summary |-> <<>>, score |-> <<>>]

BatchIdle ==
    /\ phase = "idle"
    /\ newsDf = NoTable
    /\ pool = <<>>
    /\ sub = <<>>
    /\ results = <<>>
    /\ completed = 0
    /\ name2code = <<>>
    /\ finbert_pipe = FALSE
    /\ expandedDf = <<>>
    /\ companyStats = <<>>

\* The evaluation of one pure function in the fourth system below; none in the others.
NoInput == [fn |-> "", arg |-> <<>>]
NotYet == <<>>

FnIdle ==
    /\ input = NoInput
    /\ output = NotYet

\* No statistics file and no e-mail: the state of the systems that end before
\* save_results.
AbsentStats == [exists |-> FALSE, csv |-> NoCsv]

OutIdle ==
    /\ statsFile = AbsentStats
    /\ mailbox = <<>>

IdleRun == [stage |-> "idle", date |-> "", merged |-> [outcome |-> "", df |-> BaseTable(<<>>)],
            seen |-> 0, outcome |-> ""]

Init ==
    /\ codesFile \in {CodesTable(t) : t \in RefTables}
    /\ historyFile = AbsentFile
    /\ lastCall = NoCall
    /\ calls = 0
    /\ run = [p \in Runs |-> IdleRun]
    /\ saves = <<>>
    /\ BatchIdle
    /\ FnIdle
    /\ OutIdle

\* TimeSeriesManager.update_daily_scores(daily_stats_df, history_file, date_str)
UpdateDailyScores(daily, date, saveOk) ==
    /\ calls < MaxCalls
    /\ LET res == SaveHistory(historyFile,
                              MergeDaily(codesFile, historyFile, daily, date), saveOk)
       IN  /\ historyFile' = res.file
           /\ lastCall' = [called  |-> TRUE,
                           date    |-> date,
                           daily   |-> daily,
                           before  |-> historyFile,
                           outcome |-> res.outcome,
                           repeat  |-> /\ lastCall.called
                                       /\ lastCall.outcome # "save_failed"
                                       /\ lastCall.date = date
                                       /\ lastCall.daily = daily]
    /\ calls' = calls + 1
    /\ UNCHANGED <<codesFile, raceVars, batchVars, fnVars, outVars>>

\* The code table is replaced (a listing, a delisting, a reordering).
WriteCodes(t) ==
    /\ calls < MaxCalls
    /\ codesFile # CodesTable(t)
    /\ codesFile' = CodesTable(t)
    /\ lastCall' = NoCall
    /\ UNCHANGED <<historyFile, calls, raceVars, batchVars, fnVars, outVars>>

\* The code table is removed, or left in a state read_csv cannot parse.
RemoveCodes ==
    /\ calls < MaxCalls
    /\ codesFile.exists
    /\ codesFile' = [exists |-> FALSE, readable |-> FALSE, rows |-> <<>>]
    /\ lastCall' = NoCall
    /\ UNCHANGED <<historyFile, calls, raceVars, batchVars, fnVars, outVars>>

DamageCodes ==
    /\ calls < MaxCalls
    /\ codesFile.exists /\ codesFile.readable
    /\ codesFile' = [codesFile EXCEPT !.readable = FALSE]
    /\ lastCall' = NoCall
    /\ UNCHANGED <<historyFile, calls, raceVars, batchVars, fnVars, outVars>>

\* The history file is removed, or left in a state read_csv cannot parse
\* (re-encoded by a spreadsheet program, truncated).
RemoveHistory ==
    /\ calls < MaxCalls
    /\ historyFile.exists
    /\ historyFile' = AbsentFile
    /\ lastCall' = NoCall
    /\ UNCHANGED <<codesFile, calls, raceVars, batchVars, fnVars, outVars>>

DamageHistory ==
    /\ calls < MaxCalls
    /\ historyFile.exists /\ historyFile.readable
    /\ historyFile' = [historyFile EXCEPT !.readable = FALSE]
    /\ lastCall' = NoCall
    /\ UNCHANGED <<codesFile, calls, raceVars, batchVars, fnVars, outVars>>

Next ==
    \/ \E daily \in DailyStats, date \in Dates, saveOk \in BOOLEAN :
          UpdateDailyScores(daily, date, saveOk)
    \/ \E t \in RefTables : WriteCodes(t)
    \/ RemoveCodes
    \/ DamageCodes
    \/ RemoveHistory
    \/ DamageHistory

Spec == Init /\ [][Next]_vars

(***************************************************************************)
(* The unserialized system: two runs of update_daily_scores against the    *)
(* same history file.  The handler takes no lock, so another run may act   *)
(* between its read of the file (steps 1 to 4) and its write (step 5).     *)
(***************************************************************************)
\* A date key older than the ones the runs use, and a history an earlier,
\* undisturbed merge has saved under it.
PriorDate == "20231229"

PriorHistory(rows) ==
    SavedFile(SetDateColumn(BaseTable(BaseDf(rows)), PriorDate,
                            TodayMap(<<[company |-> CompanyKey(rows[1]), score |-> 505]>>)))

InitRace ==
    /\ codesFile \in {CodesTable(t) : t \in RefTables}
    /\ historyFile \in {AbsentFile, PriorHistory(codesFile.rows)}
    /\ lastCall = NoCall
    /\ calls = 0
    /\ run = [p \in Runs |-> IdleRun]
    /\ saves = <<>>
    /\ BatchIdle
    /\ FnIdle
    /\ OutIdle

\* Lines 23 to 102: run p reads both files and builds merged_df in memory.
LoadAndMerge(p, daily, date) ==
    /\ run[p].stage = "idle"
    /\ run' = [run EXCEPT ![p] =
                 [stage   |-> "merged",
                  date    |-> date,
                  merged  |-> MergeDaily(codesFile, historyFile, daily, date),
                  seen    |-> Len(saves),
                  outcome |-> ""]]
    /\ UNCHANGED <<tsVars, saves, batchVars, fnVars, outVars>>

\* Lines 104 to 109: run p writes its merged_df over the file, whatever the file
\* holds by now.
WriteBack(p, saveOk) ==
    /\ run[p].stage = "merged"
    /\ LET res == SaveHistory(historyFile, run[p].merged, saveOk)
       IN  /\ historyFile' = res.file
           /\ run' = [run EXCEPT ![p].stage = "done", ![p].outcome = res.outcome]
           /\ saves' = IF res.outcome = "saved" THEN Append(saves, p) ELSE saves
    /\ UNCHANGED <<codesFile, lastCall, calls, batchVars, fnVars, outVars>>

NextRace ==
    \/ \E p \in Runs, daily \in DailyStats, date \in Dates : LoadAndMerge(p, daily, date)
    \/ \E p \in Runs, saveOk \in BOOLEAN : WriteBack(p, saveOk)

SpecRace == InitRace /\ [][NextRace]_vars

(***************************************************************************)
(* Part 2: the analysis phase, NewsPipeline.analyze_data: summaries, then  *)
(* sentiment scoring, then the per-company aggregation and narratives.     *)
(* The three batch stages fan out over a thread pool and are collected in  *)
(* completion order.                                                       *)
(*                                                                         *)
(* Confidences are hundredths (80 stands for 0.80).  A classifier score is *)
(* kept as its numerator over 134: 0.5 + (c/0.67 - 33/67)/2 is exactly     *)
(* (c + 34)/134 for c in hundredths, and 0.5 is 67/134.                    *)
(***************************************************************************)
\* Config.MAX_WORKERS, Config.WEIGHT_AI and Config.WEIGHT_FINBERT (in tenths).
MAX_WORKERS == 2
WEIGHT_AI == 6
WEIGHT_FINBERT == 4

\* A row of the crawlers' CSV files; load_news_data numbers the rows 0, 1, ...
\* (here 1, 2, ...) with ignore_index=True.
Article(i) == [title |-> i, content |-> i]

\* A text: what it is about, and the "新聞提及公司：Name(Code)、..." clause it ends
\* with.  EmptyText is the empty string.
EmptyText == [about |-> 0, mentions |-> <<>>]

\* Company clauses the generation service may end a summary with, as the pieces
\* the clause is written from: pieces of names, "(", a code, ")" and the comma
\* '、' ("U+3001") between two mentions.  Here Alpha-TW(1111)、Alpha(9999)、 Beta(2222).
MentionLists ==
    { << "Alpha", "-TW", "(", "1111", ")", "U+3001", "Alpha", "(", "9999", ")",
         "U+3001", " ", "Beta", "(", "2222", ")" >> }

\* What ollama.chat may answer to the summary prompt of an article: a text about
\* that title and content.
SummaryAnswers(article) == {[about |-> article.title, mentions |-> m] : m \in MentionLists}

\* A future: queued (pos: its place in submission order; arg: the arguments it was
\* submitted with), running, done (with a value or an exception), and collected
\* once the as_completed loop has handled it.
Queued(pos, arg) ==
    [state |-> "queued", pos |-> pos, arg |-> arg, raised |-> FALSE, value |-> <<>>,
     calls |-> <<>>]
Returned(future, v) == [future EXCEPT !.state = "done", !.value = <<v>>]

\* One call of ollama.chat, as the futures log it: the prompt it was made with and
\* whether it returned.
Call(prompt, ok) == [prompt |-> prompt, ok |-> ok, len |-> 0, verdict |-> ""]
Raised(future) == [future EXCEPT !.state = "done", !.raised = TRUE]

Items == DOMAIN pool
Running == {i \in Items : pool[i].state = "running"}

\* ThreadPoolExecutor(max_workers=MAX_WORKERS): a queued task starts, in submission
\* order, when a worker is free.
MayStart(i) ==
    /\ pool[i].state = "queued"
    /\ \A j \in Items : pool[j].pos < pool[i].pos => pool[j].state # "queued"
    /\ Cardinality(Running) < MAX_WORKERS

\* results[key] = value
Put(dict, key, value) ==
    [k \in DOMAIN dict \cup {key} |-> IF k = key THEN value ELSE dict[k]]

\* results.get(key, default)
Get(dict, key, default) == IF key \in DOMAIN dict THEN dict[key] ELSE default

\* The as_completed loops wait for every future of the stage.
AllReturnedCleanly == \A i \in Items : pool[i].state = "collected" /\ ~pool[i].raised

AllCollected == \A i \in Items : pool[i].state = "collected"

\* CompanyAnalyzer._load_company_codes: dict(zip(company_name, stock_code)), or {}
\* when the table cannot be read.
LoadCompanyCodes(file) ==
    IF file.exists /\ file.readable
    THEN [n \in {file.rows[i].company_name : i \in 1..Len(file.rows)} |->
            LET last == CHOOSE i \in 1..Len(file.rows) :
                            /\ file.rows[i].company_name = n
                            /\ \A j \in 1..Len(file.rows) :
                                   file.rows[j].company_name = n => j <= i
            IN  file.rows[last].stock_code]
    ELSE <<>>

----------------------------------------------------------------------------
(* Stage 1: NewsSummarizer.process_summaries *)

\* load_news_data, and the start of process_summaries: one task per row.
LoadNewsData(n) ==
    /\ phase = "idle"
    /\ newsDf' = [news |-> [i \in 1..n |-> Article(i)], summary |-> <<>>, score |-> <<>>]
    /\ IF n = 0
       THEN /\ phase' = "done"
            /\ pool' = <<>>
       ELSE /\ phase' = "summaries"
            /\ pool' = [i \in 1..n |-> Queued(i, [idx |-> i, row |-> Article(i)])]
    /\ results' = <<>>
    /\ completed' = 0
    /\ UNCHANGED <<name2code, finbert_pipe, sub, expandedDf, companyStats, tsVars, raceVars, fnVars, outVars>>

StartSummary(i) ==
    /\ phase = "summaries"
    /\ MayStart(i)
    /\ pool' = [pool EXCEPT ![i].state = "running"]
    /\ UNCHANGED <<phase, name2code, finbert_pipe, newsDf, sub, results, completed,
                   expandedDf, companyStats, tsVars, raceVars, fnVars, outVars>>

\* generate_summary: the answer of the service, stripped, or "" when the call fails.
GenerateSummary(answer) == IF answer.ok THEN answer.text ELSE EmptyText

\* _process_single_row: (idx, summary)
ProcessSingleRow(idx, answer) == [idx |-> idx, summary |-> GenerateSummary(answer)]

SummaryCalls(row) ==
    {[ok |-> TRUE, text |-> t] : t \in SummaryAnswers(row)}
    \cup {[ok |-> FALSE, text |-> EmptyText]}

\* The task of row i ends: with its (idx, summary) ...
SummaryReturns(i) ==
    /\ phase = "summaries"
    /\ pool[i].state = "running"
    /\ \E answer \in SummaryCalls(pool[i].arg.row) :
          pool' = [pool EXCEPT ![i] =
                     Returned([@ EXCEPT !.calls = <<Call("NEWS_SUMMARY", answer.ok)>>],
                              ProcessSingleRow(@.arg.idx, answer))]
    /\ UNCHANGED <<phase, name2code, finbert_pipe, newsDf, sub, results, completed,
                   expandedDf, companyStats, tsVars, raceVars, fnVars, outVars>>

\* ... or with an exception (Prompts.NEWS_SUMMARY.format raises, before any call;
\* what ollama.chat raises is caught in generate_summary).
SummaryRaises(i) ==
    /\ phase = "summaries"
    /\ pool[i].state = "running"
    /\ pool' = [pool EXCEPT ![i] = Raised(@)]
    /\ UNCHANGED <<phase, name2code, finbert_pipe, newsDf, sub, results, completed,
                   expandedDf, companyStats, tsVars, raceVars, fnVars, outVars>>

\* A key that numbers the results as they complete.
SummaryKeyByCompletion(i, future, count) == count + 1

\* The key under which the as_completed loop of process_summaries stores a result:
\* the idx the task returned (future_to_idx[future] when it raised).
SummaryKey(i, future, count) == IF future.raised THEN i ELSE future.value[1].idx

\* One turn of the as_completed loop of process_summaries.
CollectSummary(i) ==
    /\ phase = "summaries"
    /\ pool[i].state = "done"
    /\ results' = Put(results, SummaryKey(i, pool[i], completed),
                      IF pool[i].raised THEN EmptyText ELSE pool[i].value[1].summary)
    /\ completed' = completed + 1
    /\ pool' = [pool EXCEPT ![i].state = "collected"]
    /\ UNCHANGED <<phase, name2code, finbert_pipe, newsDf, sub, expandedDf, companyStats,
                   tsVars, raceVars, fnVars, outVars>>

\* df['summary'] = [results.get(idx, "") for idx in range(len(df))]; the futures,
\* the results dict and the counter are gone when process_summaries returns.
FillSummaries ==
    /\ phase = "summaries"
    /\ AllCollected
    /\ newsDf' = [newsDf EXCEPT !.summary =
                    [idx \in 1..Len(newsDf.news) |-> Get(results, idx, EmptyText)]]
    /\ phase' = "summarized"
    /\ pool' = <<>>
    /\ results' = <<>>
    /\ completed' = 0
    /\ UNCHANGED <<name2code, finbert_pipe, sub, expandedDf, companyStats, tsVars, raceVars, fnVars, outVars>>

----------------------------------------------------------------------------
(* Stage 2: SentimentAnalyzer.process_sentiment_and_translation *)

\* The two futures of the inner ThreadPoolExecutor(max_workers=2) of a row task.
\* A running task_llm is in its call of ollama.chat, a running task_trans_finbert
\* in the call of translate_to_english (the FinBERT pipeline runs in this process
\* when that call has returned).  calls lists the prompts of the calls of
\* ollama.chat the sub-task has made.
SubIdle == [state |-> "idle", raised |-> FALSE, value |-> <<>>, calls |-> <<>>]
SubRunning == [state |-> "running", raised |-> FALSE, value |-> <<>>, calls |-> <<>>]
SubReturned(v) == [state |-> "done", raised |-> FALSE, value |-> <<v>>, calls |-> <<>>]
SubRaised == [state |-> "done", raised |-> TRUE, value |-> <<>>, calls |-> <<>>]

\* A lower() that leaves every letter as it is.
LowerKeepingCase(label) == label

\* str.lower() on the labels the model writes: a cased letter becomes its lower-case
\* letter, every other character (a blank, a Chinese character) stays.
Lower(label) ==
    CASE label \in {"Positive", "POSITIVE"} -> "positive"
      [] label \in {"Pos", "POS"} -> "pos"
      [] label \in {"Neutral", "NEUTRAL"} -> "neutral"
      [] label \in {"Neu", "NEU"} -> "neu"
      [] label \in {"Negative", "NEGATIVE"} -> "negative"
      [] label \in {"Neg", "NEG"} -> "neg"
      [] label = "Bullish" -> "bullish"
      [] OTHER -> label

\* map_label of _normalize_label ("U+6B63U+9762" is 正面, "U+4E2DU+6027" is 中性,
\* "U+8CA0U+9762" is 負面)
MapLabel ==
    [l \in {"positive", "pos", "neutral", "neu", "negative", "neg",
            "U+6B63U+9762", "U+4E2DU+6027", "U+8CA0U+9762"} |->
        IF l \in {"positive", "pos", "U+6B63U+9762"} THEN "pos"
        ELSE IF l \in {"neutral", "neu", "U+4E2DU+6027"} THEN "neu"
        ELSE "neg"]

\* _normalize_label: map_label.get(str(label).lower(), "neu")
NormalizeLabel(label) ==
    IF Lower(label) \in DOMAIN MapLabel THEN MapLabel[Lower(label)] ELSE "neu"

\* The content of an answer to the sentiment prompt, as it is written:
\*   wrap  - "none": the text is the payload; "json_fence": the payload is inside
\*           ```json ... ```; "fence": inside ``` ... ```; "tagged_fence": inside
\*           ```JSON ... ```; "prose": words before the payload, no fence;
\*   form  - "object": {"label": ..., "confidence": ...}; "list": [ {...} ];
\*           "scalar": a JSON string or number and no key; "broken": an object
\*           with a syntax error (a trailing comma);
\*   label - absent, null, or a string;
\*   confidence - absent, null, a number (hundredths), a number in quotes
\*           ("quoted") or a word in quotes ("word", as "high").
NoLabel == [kind |-> "absent", text |-> ""]
NoConfidence == [kind |-> "absent", value |-> 0]
StringLabel(l) == [kind |-> "string", text |-> l]
Number(c) == [kind |-> "number", value |-> c]

Content(wrap, form, label, confidence) ==
    [ok |-> TRUE, wrap |-> wrap, form |-> form, label |-> label, confidence |-> confidence]

\* ollama.chat raised.
FailedCall ==
    [ok |-> FALSE, wrap |-> "none", form |-> "scalar", label |-> NoLabel,
     confidence |-> NoConfidence]

\* Answers of the service to the sentiment prompt: none (the call failed), one that
\* holds no label and no confidence, or a label and a confidence.
LlmAnswers ==
    { FailedCall,
      Content("prose", "scalar", NoLabel, NoConfidence),
      Content("none", "object", StringLabel("positive"), Number(90)) }

\* json.loads(clean_content) after the two fence rules: the text between the
\* fences is parsed, so a payload with words before it, with another tag behind
\* the fence or with a syntax error raises JSONDecodeError.  A non-empty list
\* stands for its first element.
JsonLoads(content) ==
    IF content.wrap \in {"prose", "tagged_fence"} \/ content.form = "broken"
    THEN "JSONDecodeError"
    ELSE IF content.form \in {"object", "list"} THEN "dict" ELSE "other"

\* float(result.get("confidence", 0.5))
FloatOf(confidence) ==
    CASE confidence.kind = "absent" -> [raised |-> FALSE, value |-> 50]
      [] confidence.kind \in {"number", "quoted"} -> [raised |-> FALSE, value |-> confidence.value]
      [] OTHER -> [raised |-> TRUE, value |-> 0]

\* \w+ between the quotes: a string of letters, digits and underscores, not empty.
IsWord(text) == text \notin {"", "very positive"}

\* re.search(r'"label"\s*:\s*"(\w+)"', content): the raw text holds a label pair
\* unless the answer is a scalar.
LabelMatch(content) ==
    /\ content.form # "scalar"
    /\ content.label.kind = "string"
    /\ IsWord(content.label.text)

\* re.search(r'"confidence"\s*:\s*([\d\.]+)', content): digits and dots right
\* after the colon, so no sign and no quote.
ConfMatch(content) ==
    /\ content.form # "scalar"
    /\ content.confidence.kind = "number"
    /\ content.confidence.value >= 0

\* The pattern fallback of generate_sentiment_label (step 3), and the default when
\* neither pattern matches.
RegexFallback(content) ==
    IF LabelMatch(content) \/ ConfMatch(content)
    THEN [label      |-> NormalizeLabel(IF LabelMatch(content) THEN content.label.text
                                        ELSE "neu"),
          confidence |-> IF ConfMatch(content) THEN content.confidence.value ELSE 50]
    ELSE [label |-> "neu", confidence |-> 50]

\* result.get("label", "neu"), and str() of it in _normalize_label
LabelOf(label) ==
    CASE label.kind = "absent" -> "neu"
      [] label.kind = "null" -> "None"
      [] OTHER -> label.text

\* generate_sentiment_label: (label, confidence).  An exception that is not a
\* JSONDecodeError (float() of a word or of null) leaves through the outer handler.
GenerateSentimentLabel(answer) ==
    IF ~answer.ok THEN [label |-> "neu", confidence |-> 50]
    ELSE IF JsonLoads(answer) = "dict"
    THEN IF FloatOf(answer.confidence).raised
         THEN [label |-> "neu", confidence |-> 50]
         ELSE [label      |-> NormalizeLabel(LabelOf(answer.label)),
               confidence |-> FloatOf(answer.confidence).value]
    ELSE RegexFallback(answer)

\* translate_to_english: the answer of the service to the summary without its
\* company clause, or "" when the call fails.
TranslateToEnglish(summary, ok) ==
    IF ok THEN [about |-> summary.about, mentions |-> <<>>] ELSE EmptyText

\* Outputs of the FinBERT pipeline on a text.
FinbertAnswers == {[ok |-> TRUE, label |-> "negative", score |-> 60]}

\* get_finbert_result: (label, confidence)
GetFinbertResult(pipe, text, answer) ==
    IF ~pipe \/ text = EmptyText \/ ~answer.ok
    THEN [label |-> "neu", confidence |-> 50]
    ELSE [label |-> IF answer.label = "positive" THEN "pos"
                    ELSE IF answer.label = "negative" THEN "neg"
                    ELSE "neu",
          confidence |-> answer.score]

\* task_trans_finbert: (translation, f_label, f_conf)
TaskTransFinbert(pipe, summary, ok, answer) ==
    LET translation == TranslateToEnglish(summary, ok)
        fin == GetFinbertResult(pipe, translation, answer)
    IN  [translation |-> translation, label |-> fin.label, confidence |-> fin.confidence]

\* A score that moves a positive label down and a negative label up.
CalculateScoreMirrored(label, confidence) ==
    IF label = "pos" THEN 100 - confidence
    ELSE IF label = "neu" THEN 67
    ELSE confidence + 34

\* calculate_score, as a numerator over 134
CalculateScore(label, confidence) ==
    IF label = "pos" THEN confidence + 34
    ELSE IF label = "neu" THEN 67
    ELSE 100 - confidence

\* round(WEIGHT_AI * llm_score + WEIGHT_FINBERT * finbert_score, 2), in hundredths.
\* 10*(6a + 4b)/134 is never half-way between two integers (134 is 2 * 67 and 67
\* is odd), so rounding is to the nearest.
FinalScore(llm_score, finbert_score) ==
    (10 * (WEIGHT_AI * llm_score + WEIGHT_FINBERT * finbert_score) + 67) \div 134

\* The record process_row_task returns once both futures have a result.
ScoreRecord(llm, trans) ==
    LET llm_score == CalculateScore(llm.label, llm.confidence)
        finbert_score == CalculateScore(trans.label, trans.confidence)
    IN  [translation        |-> trans.translation,
         ai_label           |-> llm.label,
         llm_confidence     |-> llm.confidence,
         llm_score          |-> llm_score,
         finbert_label      |-> trans.label,
         finbert_confidence |-> trans.confidence,
         finbert_score      |-> finbert_score,
         final_score        |-> FinalScore(llm_score, finbert_score)]

\* The record the as_completed loop stores for a row whose task raised.
DefaultRecord ==
    [translation        |-> EmptyText,
     ai_label           |-> "neu",
     llm_confidence     |-> 50,
     llm_score          |-> 67,
     finbert_label      |-> "neu",
     finbert_confidence |-> 50,
     finbert_score      |-> 67,
     final_score        |-> 50]

\* df[col] = None for the eight new columns
NoneRecord ==
    [translation        |-> [about |-> Null, mentions |-> <<>>],
     ai_label           |-> "None",
     llm_confidence     |-> Null,
     llm_score          |-> Null,
     finbert_label      |-> "None",
     finbert_confidence |-> Null,
     finbert_score      |-> Null,
     final_score        |-> Null]

\* A row task that replaces a failed sub-task by the neutral values and goes on.
ProcessRowTaskSwallowing(future, llm, trans) ==
    Returned(future,
             ScoreRecord(IF llm.raised THEN [label |-> "neu", confidence |-> 50]
                         ELSE llm.value[1],
                         IF trans.raised
                         THEN [translation |-> EmptyText, label |-> "neu", confidence |-> 50]
                         ELSE trans.value[1]))

\* process_row_task once both sub-tasks are done: future_llm.result() and
\* future_trans.result() re-raise the exception of their sub-task.
ProcessRowTask(future, llm, trans) ==
    IF llm.raised \/ trans.raised
    THEN Raised(future)
    ELSE Returned(future, ScoreRecord(llm.value[1], trans.value[1]))

\* What the as_completed loop stores for a finished row task: its record, or the
\* default record when future.result() raises.
StoredRecord(future) == IF future.raised THEN DefaultRecord ELSE future.value[1]

\* The calls of ollama.chat that are under way: one per running summary task, one
\* per running task_llm and one per running task_trans_finbert,
\* at most one (the narrative, then its validation) per running narrative task.
CallsInFlight ==
    IF phase = "sentiment"
    THEN Cardinality({i \in DOMAIN sub : sub[i].llm.state = "running"})
         + Cardinality({i \in DOMAIN sub : sub[i].trans.state = "running"})
    ELSE Cardinality(Running)

\* initialize_finbert, and the submission of one process_row_task per row.
SubmitRows(loaded) ==
    /\ phase = "summarized"
    /\ phase' = "sentiment"
    /\ finbert_pipe' = loaded
    /\ pool' = [i \in 1..Len(newsDf.news) |->
                  Queued(i, [idx |-> i, row |-> [summary |-> newsDf.summary[i]]])]
    /\ sub' = [i \in 1..Len(newsDf.news) |-> [llm |-> SubIdle, trans |-> SubIdle]]
    /\ results' = <<>>
    /\ completed' = 0
    /\ UNCHANGED <<name2code, newsDf, expandedDf, companyStats, tsVars, raceVars, fnVars, outVars>>

\* process_row_task starts and submits its two sub-tasks.
StartRow(i) ==
    /\ phase = "sentiment"
    /\ MayStart(i)
    /\ pool' = [pool EXCEPT ![i].state = "running"]
    /\ sub' = [sub EXCEPT ![i] = [llm |-> SubRunning, trans |-> SubRunning]]
    /\ UNCHANGED <<phase, name2code, finbert_pipe, newsDf, results, completed,
                   expandedDf, companyStats, tsVars, raceVars, fnVars, outVars>>

\* task_llm ends
LlmReturns(i, answer) ==
    /\ phase = "sentiment"
    /\ sub[i].llm.state = "running"
    /\ sub' = [sub EXCEPT ![i].llm =
                 [SubReturned(GenerateSentimentLabel(answer))
                     EXCEPT !.calls = <<"SENTIMENT_ANALYSIS">>]]
    /\ UNCHANGED <<phase, name2code, finbert_pipe, newsDf, pool, results, completed,
                   expandedDf, companyStats, tsVars, raceVars, fnVars, outVars>>

LlmRaises(i) ==
    /\ phase = "sentiment"
    /\ sub[i].llm.state = "running"
    /\ sub' = [sub EXCEPT ![i].llm = SubRaised]
    /\ UNCHANGED <<phase, name2code, finbert_pipe, newsDf, pool, results, completed,
                   expandedDf, companyStats, tsVars, raceVars, fnVars, outVars>>

\* task_trans_finbert ends: the call of translate_to_english returns or fails, and
\* the FinBERT pipeline, which runs in this process, classifies the translation.
TransReturns(i, ok, answer) ==
    /\ phase = "sentiment"
    /\ sub[i].trans.state = "running"
    /\ sub' = [sub EXCEPT ![i].trans =
                 [SubReturned(TaskTransFinbert(finbert_pipe, pool[i].arg.row.summary,
                                               ok, answer))
                     EXCEPT !.calls = <<"TRANSLATION">>]]
    /\ UNCHANGED <<phase, name2code, finbert_pipe, newsDf, pool, results, completed,
                   expandedDf, companyStats, tsVars, raceVars, fnVars, outVars>>

TransRaises(i) ==
    /\ phase = "sentiment"
    /\ sub[i].trans.state = "running"
    /\ sub' = [sub EXCEPT ![i].trans = SubRaised]
    /\ UNCHANGED <<phase, name2code, finbert_pipe, newsDf, pool, results, completed,
                   expandedDf, companyStats, tsVars, raceVars, fnVars, outVars>>

\* A join that is over as soon as one sub-task has raised.
JoinedOrRaised(llm, trans) ==
    \/ llm.state = "done" /\ trans.state = "done"
    \/ llm.state = "done" /\ llm.raised
    \/ trans.state = "done" /\ trans.raised

\* The end of the with block of process_row_task: future_llm.result() waits for
\* task_llm, and leaving the block (executor.shutdown(wait=True)) waits for both
\* sub-tasks, also when result() has raised.
Joined(llm, trans) == llm.state = "done" /\ trans.state = "done"

\* The inner executor has shut down (both sub-tasks done): process_row_task
\* returns its record or raises.
RowTaskEnds(i) ==
    /\ phase = "sentiment"
    /\ pool[i].state = "running"
    /\ Joined(sub[i].llm, sub[i].trans)
    /\ pool' = [pool EXCEPT ![i] = ProcessRowTask(@, sub[i].llm, sub[i].trans)]
    /\ UNCHANGED <<phase, name2code, finbert_pipe, newsDf, sub, results, completed,
                   expandedDf, companyStats, tsVars, raceVars, fnVars, outVars>>

\* One turn of the as_completed loop of process_sentiment_and_translation.
CollectRow(i) ==
    /\ phase = "sentiment"
    /\ pool[i].state = "done"
    /\ results' = Put(results, i, StoredRecord(pool[i]))
    /\ completed' = completed + 1
    /\ pool' = [pool EXCEPT ![i].state = "collected"]
    /\ UNCHANGED <<phase, name2code, finbert_pipe, newsDf, sub, expandedDf, companyStats,
                   tsVars, raceVars, fnVars, outVars>>

\* df[col] = None, then df.at[idx, col] = res.get(col) for every stored result.
FillScores ==
    /\ phase = "sentiment"
    /\ AllCollected
    /\ newsDf' = [newsDf EXCEPT !.score =
                    [idx \in 1..Len(newsDf.news) |-> Get(results, idx, NoneRecord)]]
    /\ phase' = "scored"
    /\ pool' = <<>>
    /\ sub' = <<>>
    /\ results' = <<>>
    /\ completed' = 0
    /\ UNCHANGED <<name2code, finbert_pipe, expandedDf, companyStats, tsVars, raceVars, fnVars, outVars>>

----------------------------------------------------------------------------
(* Stage 3: CompanyAnalyzer: expansion, aggregation and company narratives *)

\* None, in the 'company' column and as a company narrative.
NoneCompany == "None"
NoneNarrative == [about |-> NoneCompany, len |-> 0]

RECURSIVE Concat(_)
Concat(pieces) == IF pieces = <<>> THEN "" ELSE Head(pieces) \o Concat(Tail(pieces))

\* normalize_company_name: strip, then drop every '、', ',', ideographic space,
\* space and '-TW'.
NormalizeCompanyName(name) ==
    LET Kept(piece) == piece \notin {"U+3001", ",", "U+3000", " ", "-TW"}
    IN  Concat(SelectSeq(name, Kept))

\* \d+: the codes of the model that are strings of digits ("11A1" is none).
IsDigits(piece) == piece \in {"1111", "2222", "3333", "9999"}

\* re.findall(r'([^(]+)\((\d+)\)', company_text): the (name, code) groups, found
\* from left to right.  A name is the longest run of pieces without "(" that ends
\* before a "(", and starts where the last group ended; when what follows the "("
\* is not digits and ")", the search goes on behind that "(".
RECURSIVE FindAllFrom(_, _, _)
FindAllFrom(clause, start, p) ==
    IF p > Len(clause) THEN <<>>
    ELSE IF clause[p] # "(" THEN FindAllFrom(clause, start, p + 1)
    ELSE IF /\ p > start
            /\ p + 2 <= Len(clause)
            /\ IsDigits(clause[p + 1])
            /\ clause[p + 2] = ")"
         THEN <<[name |-> SubSeq(clause, start, p - 1), code |-> clause[p + 1]]>>
                  \o FindAllFrom(clause, p + 3, p + 3)
         ELSE FindAllFrom(clause, p + 1, p + 1)

FindAll(clause) == FindAllFrom(clause, 1, 1)

\* extract_companies_from_text: the groups whose normalized name is in the code
\* table with the same code, as "Name(Code)".
ExtractCompaniesFromText(text, n2c) ==
    IF DOMAIN n2c = {}
    THEN <<>>
    ELSE LET Valid(m) == /\ NormalizeCompanyName(m.name) \in DOMAIN n2c
                         /\ n2c[NormalizeCompanyName(m.name)] = m.code
             Keys(kept) == [k \in 1..Len(kept) |->
                              NormalizeCompanyName(kept[k].name) \o "(" \o kept[k].code \o ")"]
         IN  CHOOSE companies \in
                 {Keys(kept) : kept \in {SelectSeq(FindAll(text.mentions), Valid)}} : TRUE

\* The rows expand_news_by_company appends for one article.
RowsOfArticle(df, i, n2c) ==
    LET Row(company) == [idx         |-> i,
                         summary     |-> df.summary[i],
                         final_score |-> df.score[i].final_score,
                         company     |-> company]
        Rows(companies) == IF companies = <<>>
                           THEN <<Row(NoneCompany)>>
                           ELSE [k \in 1..Len(companies) |-> Row(companies[k])]
    IN  CHOOSE rows \in
            {Rows(companies) :
                companies \in {ExtractCompaniesFromText(df.summary[i], n2c)}} : TRUE

RECURSIVE ExpandFrom(_, _, _)
ExpandFrom(df, i, n2c) ==
    IF i > Len(df.news) THEN <<>>
    ELSE RowsOfArticle(df, i, n2c) \o ExpandFrom(df, i + 1, n2c)

\* drop_duplicates(subset=['summary', 'company']): the first row of each pair stays.
DropDuplicateRows(rows) ==
    SubSeqAt(rows, {i \in 1..Len(rows) :
                      \A j \in 1..(i - 1) :
                          \/ rows[j].summary # rows[i].summary
                          \/ rows[j].company # rows[i].company})

\* expand_news_by_company
ExpandNewsByCompany(df, n2c) ==
    CHOOSE expanded \in {DropDuplicateRows(rows) : rows \in {ExpandFrom(df, 1, n2c)}} : TRUE

\* The company keys of the model in the order groupby('company') sorts them.
GroupOrder == [i \in 1..Len(RefList) |-> CompanyKey(RefList[i])]

\* A sum that takes the first score for every row.
SumScoresOfFirst(rows) ==
    IF rows = <<>> THEN 0 ELSE Head(rows).final_score * Len(rows)

RECURSIVE SumScores(_)
SumScores(rows) ==
    IF rows = <<>> THEN 0 ELSE Head(rows).final_score + SumScores(Tail(rows))

\* _combine_news_content: "第i則新聞:" and the summary without its company clause.
CombineNewsContent(rows) == [i \in 1..Len(rows) |-> [n |-> i, content |-> rows[i].summary.about]]

\* groupby('company').agg(...).reset_index(): one row per company, labelled 1, 2, ...
\* in key order.  The mean is kept as the sum of the scores (hundredths) and their
\* count.
GroupedStats(expanded) ==
    LET Present(c) == c # NoneCompany /\ \E i \in 1..Len(expanded) : expanded[i].company = c
        keys == SelectSeq(GroupOrder, Present)
        Group(c) == LET OfCompany(r) == r.company = c IN SelectSeq(expanded, OfCompany)
    IN  [k \in 1..Len(keys) |->
           [idx                |-> k,
            company            |-> keys[k],
            total_articles     |-> Len(Group(keys[k])),
            avg_weighted_score |-> [sum   |-> SumScores(Group(keys[k])),
                                    count |-> Len(Group(keys[k]))],
            whole_news_content |-> CombineNewsContent(Group(keys[k]))]]

\* sort_values('total_articles', ascending=False): the default sort is not stable,
\* so rows with as many articles may come in either order.
SortedByArticles(rows) ==
    {s \in [1..Len(rows) -> Range(rows)] :
        /\ Range(s) = Range(rows)
        /\ \A i \in 1..(Len(rows) - 1) : s[i].total_articles >= s[i + 1].total_articles}

\* calculate_company_sentiment_stats: the tables it may return for the groups of
\* the rows that name a company (an empty table when there are none).
CalculateCompanySentimentStats(grouped) ==
    IF grouped = <<>> THEN {<<>>} ELSE SortedByArticles(grouped)

\* The futures of add_company_summary: one per row of the statistics, submitted in
\* row order and known by the index label of its row.
NarrativeTasks(stats) ==
    [idx \in {stats[p].idx : p \in 1..Len(stats)} |->
        LET p == CHOOSE q \in 1..Len(stats) : stats[q].idx = idx
        IN  Queued(p, [idx           |-> idx,
                       company       |-> stats[p].company,
                       whole_content |-> stats[p].whole_news_content])]

\* expand_news_by_company, calculate_company_sentiment_stats and the start of
\* add_company_summary, which returns at once when the statistics are empty.
Aggregate ==
    /\ phase = "scored"
    /\ \E expanded \in {ExpandNewsByCompany(newsDf, name2code)} :
          /\ expandedDf' = expanded
          /\ \E grouped \in {GroupedStats(expanded)} :
                \E stats \in CalculateCompanySentimentStats(grouped) :
                    /\ companyStats' = stats
                    /\ phase' = IF stats = <<>> THEN "done" ELSE "narratives"
                    /\ pool' = NarrativeTasks(stats)
    /\ results' = <<>>
    /\ completed' = 0
    /\ UNCHANGED <<name2code, finbert_pipe, newsDf, sub, tsVars, raceVars, fnVars, outVars>>

StartNarrative(i) ==
    /\ phase = "narratives"
    /\ MayStart(i)
    /\ pool' = [pool EXCEPT ![i].state = "running"]
    /\ UNCHANGED <<phase, name2code, finbert_pipe, newsDf, sub, results, completed,
                   expandedDf, companyStats, tsVars, raceVars, fnVars, outVars>>

\* Answers of the service to the narrative prompt of a company (none when the call
\* fails; a text of 3 or of 40 characters), and to the validation prompt.
NarrativeAnswers(company) ==
    { [ok |-> FALSE, text |-> NoneNarrative],
      [ok |-> TRUE, text |-> [about |-> company, len |-> 3]],
      [ok |-> TRUE, text |-> [about |-> company, len |-> 40]] }

Verdicts == {"YES", "NO", "error"}

\* A validator that lets a narrative pass when the validation call fails.
ValidateFailingOpen(summary, verdict) ==
    IF summary.len < 5 THEN FALSE ELSE verdict # "NO"

\* SummaryValidator.validate
Validate(summary, verdict) ==
    IF summary.len < 5 THEN FALSE ELSE verdict = "YES"

\* _generate_single_company_summary: the narrative, or None.
GenerateSingleCompanySummary(answer, verdict) ==
    IF answer.ok /\ Validate(answer.text, verdict) THEN answer.text ELSE NoneNarrative

\* A narrative task that asks for the narrative a second time when the first call
\* failed.
ServiceCallsRetrying(answer, verdict) ==
    IF answer.ok
    THEN <<[prompt |-> "COMPANY_SUMMARY", ok |-> TRUE, len |-> answer.text.len,
            verdict |-> ""]>>
    ELSE <<[prompt |-> "COMPANY_SUMMARY", ok |-> FALSE, len |-> 0, verdict |-> ""],
           [prompt |-> "COMPANY_SUMMARY", ok |-> FALSE, len |-> 0, verdict |-> ""]>>

\* The calls of ollama.chat one _generate_single_company_summary makes: the one for
\* the narrative and, unless it failed or validate returned early on a text of
\* less than 5 characters, the one for the verdict.
ServiceCalls(answer, verdict) ==
    <<[prompt |-> "COMPANY_SUMMARY", ok |-> answer.ok, len |-> answer.text.len,
       verdict |-> ""]>>
    \o IF answer.ok /\ answer.text.len >= 5
       THEN <<[prompt |-> "SUMMARY_VALIDATION", ok |-> verdict # "error", len |-> 0,
               verdict |-> verdict]>>
       ELSE <<>>

NarrativeReturns(i, verdict) ==
    /\ phase = "narratives"
    /\ pool[i].state = "running"
    /\ \E answer \in NarrativeAnswers(pool[i].arg.company) :
          pool' = [pool EXCEPT ![i] =
                     Returned([@ EXCEPT !.calls = ServiceCalls(answer, verdict)],
                              GenerateSingleCompanySummary(answer, verdict))]
    /\ UNCHANGED <<phase, name2code, finbert_pipe, newsDf, sub, results, completed,
                   expandedDf, companyStats, tsVars, raceVars, fnVars, outVars>>

\* Prompts.COMPANY_SUMMARY.format raises before any call.
NarrativeRaises(i) ==
    /\ phase = "narratives"
    /\ pool[i].state = "running"
    /\ pool' = [pool EXCEPT ![i] = Raised(@)]
    /\ UNCHANGED <<phase, name2code, finbert_pipe, newsDf, sub, results, completed,
                   expandedDf, companyStats, tsVars, raceVars, fnVars, outVars>>

\* One turn of the as_completed loop of add_company_summary.
CollectNarrative(i) ==
    /\ phase = "narratives"
    /\ pool[i].state = "done"
    /\ results' = Put(results, i, IF pool[i].raised THEN NoneNarrative ELSE pool[i].value[1])
    /\ completed' = completed + 1
    /\ pool' = [pool EXCEPT ![i].state = "collected"]
    /\ UNCHANGED <<phase, name2code, finbert_pipe, newsDf, sub, expandedDf, companyStats,
                   tsVars, raceVars, fnVars, outVars>>

\* A last step of add_company_summary that keeps the companies without a narrative.
FillNarrativesKeepingAll ==
    /\ phase = "narratives"
    /\ AllCollected
    /\ companyStats' = [p \in 1..Len(companyStats) |->
                          [idx                |-> companyStats[p].idx,
                           company            |-> companyStats[p].company,
                           total_articles     |-> companyStats[p].total_articles,
                           avg_weighted_score |-> companyStats[p].avg_weighted_score,
                           whole_news_content |-> companyStats[p].whole_news_content,
                           company_summary    |-> Get(results, companyStats[p].idx,
                                                      NoneNarrative)]]
    /\ phase' = "done"
    /\ pool' = <<>>
    /\ results' = <<>>
    /\ completed' = 0
    /\ UNCHANGED <<name2code, finbert_pipe, newsDf, sub, expandedDf, tsVars, raceVars, fnVars, outVars>>

\* company_stats['company_summary'] = index.map(results.get), then
\* dropna(subset=['company_summary']).
FillNarratives ==
    /\ phase = "narratives"
    /\ AllCollected
    /\ LET WithSummary(r) ==
               [idx                |-> r.idx,
                company            |-> r.company,
                total_articles     |-> r.total_articles,
                avg_weighted_score |-> r.avg_weighted_score,
                whole_news_content |-> r.whole_news_content,
                company_summary    |-> Get(results, r.idx, NoneNarrative)]
           filled == [p \in 1..Len(companyStats) |-> WithSummary(companyStats[p])]
           NotNa(r) == r.company_summary # NoneNarrative
       IN  companyStats' = SelectSeq(filled, NotNa)
    /\ phase' = "done"
    /\ pool' = <<>>
    /\ results' = <<>>
    /\ completed' = 0
    /\ UNCHANGED <<name2code, finbert_pipe, newsDf, sub, expandedDf, tsVars, raceVars, fnVars, outVars>>

----------------------------------------------------------------------------
(* The analysis phase as a system: one run of analyze_data. *)

\* The FinBERT model is installed: pipeline("text-classification", ...) loads it.
FinbertLoads == {TRUE}

InitBatch ==
    /\ codesFile = CodesTable(RefList)
    /\ historyFile = AbsentFile
    /\ lastCall = NoCall
    /\ calls = 0
    /\ run = [p \in Runs |-> IdleRun]
    /\ saves = <<>>
    /\ phase = "idle"
    /\ name2code = LoadCompanyCodes(codesFile)
    /\ finbert_pipe = FALSE
    /\ newsDf = NoTable
    /\ pool = <<>>
    /\ sub = <<>>
    /\ results = <<>>
    /\ completed = 0
    /\ expandedDf = <<>>
    /\ companyStats = <<>>
    /\ FnIdle
    /\ OutIdle

NextBatch ==
    \/ \E n \in 0..NumArticles : LoadNewsData(n)
    \/ \E i \in Items : StartSummary(i)
    \/ \E i \in Items : SummaryReturns(i)
    \/ \E i \in Items : SummaryRaises(i)
    \/ \E i \in Items : CollectSummary(i)
    \/ FillSummaries
    \/ \E loaded \in FinbertLoads : SubmitRows(loaded)
    \/ \E i \in Items : StartRow(i)
    \/ \E i \in Items, answer \in LlmAnswers : LlmReturns(i, answer)
    \/ \E i \in Items : LlmRaises(i)
    \/ \E i \in Items, ok \in BOOLEAN, answer \in FinbertAnswers : TransReturns(i, ok, answer)
    \/ \E i \in Items : TransRaises(i)
    \/ \E i \in Items : RowTaskEnds(i)
    \/ \E i \in Items : CollectRow(i)
    \/ FillScores
    \/ Aggregate
    \/ \E i \in Items : StartNarrative(i)
    \/ \E i \in Items, verdict \in Verdicts : NarrativeReturns(i, verdict)
    \/ \E i \in Items : NarrativeRaises(i)
    \/ \E i \in Items : CollectNarrative(i)
    \/ FillNarratives

SpecBatch == InitBatch /\ [][NextBatch]_vars

\* Every external call returns or raises in the end, and the executors run every
\* task they were given.
SpecBatchFair == SpecBatch /\ WF_vars(NextBatch)

(***************************************************************************)
(* Fourth system: one pure function of the analysis applied to one input.  *)
(* Init draws the function and its arguments, the action of the function   *)
(* applies it once.                                                        *)
(***************************************************************************)
\* The canonical labels, and the confidences of [0, 1] in hundredths.
Labels == {"pos", "neu", "neg"}
UnitConfidences == 0..100

Applied(v) == <<v>>

ScoreInputs ==
    { [fn |-> "calculate_score", arg |-> [label |-> l, confidence |-> c]] :
        l \in Labels, c \in UnitConfidences }

\* SentimentAnalyzer.calculate_score(label, confidence)
ApplyCalculateScore ==
    /\ input.fn = "calculate_score"
    /\ output = NotYet
    /\ output' = Applied(CalculateScore(input.arg.label, input.arg.confidence))
    /\ UNCHANGED <<input, tsVars, raceVars, batchVars, outVars>>

\* Labels the generation service may write: every key of map_label in lower case,
\* capitalized and in upper case, and labels that are no key.
RawLabels ==
    { "positive", "Positive", "POSITIVE", "pos", "Pos", "POS",
      "neutral", "Neutral", "NEUTRAL", "neu", "Neu", "NEU",
      "negative", "Negative", "NEGATIVE", "neg", "Neg", "NEG",
      "U+6B63U+9762", "U+4E2DU+6027", "U+8CA0U+9762", "Bullish", "bullish", "" }

\* Confidences the answer of the service may hold, in hundredths: float() and the
\* pattern [\d\.]+ take any number, -0.5 (structured parse only), 1.5 and 95 included.
ParsedConfidences == {-50, 0, 20, 33, 50, 90, 100, 150, 9500}

\* Answers to the sentiment prompt: the two of LlmAnswers that deliver no pair, and
\* every label with every confidence.
ParsedAnswers ==
    { a \in LlmAnswers : ~(a.ok /\ JsonLoads(a) = "dict") } \cup
    { Content("none", "object", StringLabel(l), Number(c)) :
        l \in {"positive", "NEGATIVE", "U+4E2DU+6027", "Bullish"}, c \in ParsedConfidences }

\* Outputs of the FinBERT pipeline: one of its three labels with the probability of
\* the most likely of three classes, or an exception.
ClassifierAnswers ==
    { [ok |-> TRUE, label |-> l, score |-> c] :
        l \in {"positive", "neutral", "negative"}, c \in {34, 60, 100} } \cup
    { [ok |-> FALSE, label |-> "", score |-> 0] }

RowInputs ==
    { [fn |-> "process_row_task",
       arg |-> [llm |-> a, translated |-> ok, finbert |-> f, raises |-> r]] :
        a \in ParsedAnswers, ok \in BOOLEAN, f \in ClassifierAnswers,
        r \in {"none", "task_llm", "task_trans_finbert"} }

\* SentimentAnalyzer.process_row_task(row) for one row, and the record the
\* as_completed loop stores for it.
ApplyProcessRowTask ==
    /\ input.fn = "process_row_task"
    /\ output = NotYet
    /\ LET summary == [about |-> 1, mentions |-> <<>>]
           llm == IF input.arg.raises = "task_llm" THEN SubRaised
                  ELSE SubReturned(GenerateSentimentLabel(input.arg.llm))
           trans == IF input.arg.raises = "task_trans_finbert" THEN SubRaised
                    ELSE SubReturned(TaskTransFinbert(TRUE, summary, input.arg.translated,
                                                      input.arg.finbert))
           future == [Queued(1, [idx |-> 1, row |-> [summary |-> summary]])
                        EXCEPT !.state = "running"]
       IN  output' = Applied(StoredRecord(ProcessRowTask(future, llm, trans)))
    /\ UNCHANGED <<input, tsVars, raceVars, batchVars, outVars>>

\* Contents the service may answer the sentiment prompt with.
WrittenLabels ==
    { NoLabel, [kind |-> "null", text |-> ""], StringLabel("Positive"),
      StringLabel("negative"), StringLabel("very positive"), StringLabel("") }

WrittenConfidences ==
    { NoConfidence, [kind |-> "null", value |-> 0], Number(80), Number(-50),
      [kind |-> "quoted", value |-> 70], [kind |-> "word", value |-> 0] }

Contents ==
    { Content(wrap, form, label, confidence) :
        wrap \in {"none", "json_fence", "fence", "tagged_fence", "prose"},
        form \in {"object", "list", "broken"},
        label \in WrittenLabels, confidence \in WrittenConfidences } \cup
    { Content(wrap, "scalar", NoLabel, NoConfidence) :
        wrap \in {"none", "json_fence", "fence", "tagged_fence", "prose"} }

ParseInputs ==
    { [fn |-> "generate_sentiment_label", arg |-> a] : a \in Contents \cup {FailedCall} }

\* SentimentAnalyzer.generate_sentiment_label(summary), by the answer of the service
ApplyGenerateSentimentLabel ==
    /\ input.fn = "generate_sentiment_label"
    /\ output = NotYet
    /\ output' = Applied(GenerateSentimentLabel(input.arg))
    /\ UNCHANGED <<input, tsVars, raceVars, batchVars, outVars>>

LabelInputs == { [fn |-> "_normalize_label", arg |-> l] : l \in RawLabels }

\* SentimentAnalyzer._normalize_label(label)
ApplyNormalizeLabel ==
    /\ input.fn = "_normalize_label"
    /\ output = NotYet
    /\ output' = Applied(NormalizeLabel(input.arg))
    /\ UNCHANGED <<input, tsVars, raceVars, batchVars, outVars>>

\* Mentions the generation service may write into a company clause: a right one,
\* one with the -TW suffix, one whose code differs in the second table, one with a
\* name no table holds, and one whose code is not a number.
WrittenMentions ==
    { [name |-> <<"Alpha">>, code |-> "1111"],
      [name |-> <<"Alpha", "-TW">>, code |-> "1111"],
      [name |-> <<"Beta">>, code |-> "2222"],
      [name |-> <<"Gamma">>, code |-> "3333"],
      [name |-> <<"Alpha">>, code |-> "11A1"] }

\* The clause "Name1(Code1)、Name2(Code2)..." of a list of mentions, in pieces.
RECURSIVE WriteClause(_)
WriteClause(written) ==
    IF written = <<>> THEN <<>>
    ELSE Head(written).name \o <<"(", Head(written).code, ")">>
           \o (IF Len(written) > 1 THEN <<"U+3001">> ELSE <<>>)
           \o WriteClause(Tail(written))

\* name2code of three reference tables: the table of the model, one with another
\* code for Beta, and none (the file is missing).
CodeTables ==
    { LoadCompanyCodes(CodesTable(RefList)),
      LoadCompanyCodes(CodesTable(<<[company_name |-> "Alpha", stock_code |-> "1111"],
                                    [company_name |-> "Beta", stock_code |-> "9999"]>>)),
      LoadCompanyCodes(AbsentFile) }

ExtractInputs ==
    { [fn |-> "extract_companies_from_text", arg |-> [written |-> w, name2code |-> t]] :
        w \in SeqsUpTo(WrittenMentions, MaxMentions), t \in CodeTables }

\* CompanyAnalyzer.extract_companies_from_text(text)
ApplyExtractCompanies ==
    /\ input.fn = "extract_companies_from_text"
    /\ output = NotYet
    /\ output' = Applied(ExtractCompaniesFromText(
                     [about |-> 1, mentions |-> WriteClause(input.arg.written)],
                     input.arg.name2code))
    /\ UNCHANGED <<input, tsVars, raceVars, batchVars, outVars>>

\* Summaries of scored articles: the empty one of a failed call, and texts about one
\* of two subjects that end with no clause, with one mention, with the same mention
\* twice, or with two companies.
ScoredSummaries ==
    { EmptyText } \cup
    { [about |-> a, mentions |-> WriteClause(w)] :
        a \in {1, 2},
        w \in { <<>>,
                <<[name |-> <<"Alpha">>, code |-> "1111"]>>,
                <<[name |-> <<"Alpha">>, code |-> "1111"],
                  [name |-> <<"Alpha", "-TW">>, code |-> "1111"]>>,
                <<[name |-> <<"Beta">>, code |-> "2222"],
                  [name |-> <<"Alpha">>, code |-> "1111"]>> } }

\* news_df after scoring: up to NumArticles articles, each with a summary and a
\* final_score (0.50 or 0.51).
ScoredTables ==
    { [news    |-> [i \in 1..Len(rows) |-> Article(i)],
       summary |-> [i \in 1..Len(rows) |-> rows[i].summary],
       score   |-> [i \in 1..Len(rows) |-> [final_score |-> rows[i].final_score]]] :
        rows \in SeqsUpTo([summary : ScoredSummaries, final_score : {50, 51}],
                          NumArticles) }

StatsInputs == { [fn |-> "calculate_company_sentiment_stats", arg |-> df] : df \in ScoredTables }

\* CompanyAnalyzer.expand_news_by_company(df), then
\* CompanyAnalyzer.calculate_company_sentiment_stats(expanded_df)
ApplyCompanyStats ==
    /\ input.fn = "calculate_company_sentiment_stats"
    /\ output = NotYet
    /\ \E expanded \in {ExpandNewsByCompany(input.arg, LoadCompanyCodes(CodesTable(RefList)))} :
          \E stats \in CalculateCompanySentimentStats(GroupedStats(expanded)) :
              output' = Applied([expanded_df |-> expanded, company_stats |-> stats])
    /\ UNCHANGED <<input, tsVars, raceVars, batchVars, outVars>>

\* The decimal text to_csv writes for a float names its value, whatever sum and
\* count the mean was computed from: the mean in hundredths, in lowest terms.
RECURSIVE Gcd(_, _)
Gcd(a, b) == IF b = 0 THEN a ELSE Gcd(b, a % b)

FloatText(avg) ==
    LET g == Gcd(avg.sum, avg.count)
    IN  [numerator |-> avg.sum \div g, denominator |-> avg.count \div g]

\* A table in whatever order it comes.
AnyOrder(rows) == {s \in [1..Len(rows) -> Range(rows)] : Range(s) = Range(rows)}

\* sort_values('avg_weighted_score', ascending=False): rows with equal means may
\* come in either order.
SortedByScore(rows) ==
    {s \in [1..Len(rows) -> Range(rows)] :
        /\ Range(s) = Range(rows)
        /\ \A i \in 1..(Len(rows) - 1) :
              s[i].avg_weighted_score.sum * s[i + 1].avg_weighted_score.count >=
                  s[i + 1].avg_weighted_score.sum * s[i].avg_weighted_score.count}

\* to_csv(Config.STATS_OUTPUT_PATH, index=False): every column of company_stats,
\* without the index.
StatsCsv(rows) ==
    [header |-> <<"company", "total_articles", "avg_weighted_score",
                  "whole_news_content", "company_summary">>,
     lines  |-> [i \in 1..Len(rows) |->
                    [company            |-> rows[i].company,
                     total_articles     |-> rows[i].total_articles,
                     avg_weighted_score |-> FloatText(rows[i].avg_weighted_score),
                     whole_news_content |-> rows[i].whole_news_content,
                     company_summary    |-> rows[i].company_summary]]]

\* The mean as update_daily_scores takes it, in thousandths (cut off below them: the
\* means of the model round to two decimals as their float does).
MeanThousandths(avg) == (avg.sum * 10) \div avg.count

\* company_stats as the daily_stats_df of update_daily_scores.
DailyOf(stats) ==
    [scoreCol |-> "avg_weighted_score",
     rows     |-> [p \in 1..Len(stats) |->
                     [company |-> stats[p].company,
                      score   |-> MeanThousandths(stats[p].avg_weighted_score)]]]

\* A save_results without the check for an empty table.
SaveResultsAlways(stats, files, date, saveOk) ==
    {[stats_file   |-> [exists |-> TRUE, csv |-> StatsCsv(sorted)],
      history_file |-> saved.file,
      merge        |-> saved.outcome] :
        sorted \in SortedByScore(stats),
        saved \in {SaveHistory(files.history_file,
                               MergeDaily(files.codes_file, files.history_file,
                                          DailyOf(stats), date),
                               saveOk)}}

\* NewsPipeline.save_results(company_stats): the two files it may leave behind,
\* and how the merge of update_daily_scores ended ("" when it was not called).
SaveResults(stats, files, date, saveOk) ==
    IF stats = <<>>
    THEN {[stats_file |-> files.stats_file, history_file |-> files.history_file,
           merge |-> ""]}
    ELSE {[stats_file   |-> [exists |-> TRUE, csv |-> StatsCsv(sorted)],
           history_file |-> saved.file,
           merge        |-> saved.outcome] :
            sorted \in SortedByScore(stats),
            saved \in {SaveHistory(files.history_file,
                                   MergeDaily(files.codes_file, files.history_file,
                                              DailyOf(stats), date),
                                   saveOk)}}

\* Means of final scores: 0.50, 0.51, (0.50 + 0.51)/2 and (0.50 + 0.51 + 0.51)/3.
Means ==
    { [sum |-> 50, count |-> 1], [sum |-> 51, count |-> 1],
      [sum |-> 101, count |-> 2], [sum |-> 152, count |-> 3] }

\* company_stats as add_company_summary returns it: at most one row per company,
\* in any order.
FinalStats ==
    { stats \in SeqsUpTo([company : AllKeys, avg_weighted_score : Means], Len(RefList)) :
        \A p, q \in 1..Len(stats) : stats[p].company = stats[q].company => p = q }

SaveInputs ==
    { [fn  |-> "save_results",
       arg |-> [stats |-> [p \in 1..Len(stats) |->
                             [idx                |-> p,
                              company            |-> stats[p].company,
                              total_articles     |-> stats[p].avg_weighted_score.count,
                              avg_weighted_score |-> stats[p].avg_weighted_score,
                              whole_news_content |-> <<>>,
                              company_summary    |-> [about |-> stats[p].company,
                                                      len   |-> 40]]],
                date  |-> date,
                saveOk |-> saveOk]] :
        stats \in FinalStats, date \in Dates, saveOk \in BOOLEAN }

NoFiles ==
    [stats_file |-> AbsentStats, history_file |-> AbsentFile,
     codes_file |-> CodesTable(RefList)]

\* NewsPipeline.save_results(company_stats) on a machine without earlier files
ApplySaveResults ==
    /\ input.fn = "save_results"
    /\ output = NotYet
    /\ \E files \in SaveResults(input.arg.stats, NoFiles, input.arg.date, input.arg.saveOk) :
          output' = Applied(files)
    /\ UNCHANGED <<input, tsVars, raceVars, batchVars, outVars>>

InitFn ==
    /\ codesFile = CodesTable(RefList)
    /\ historyFile = AbsentFile
    /\ lastCall = NoCall
    /\ calls = 0
    /\ run = [p \in Runs |-> IdleRun]
    /\ saves = <<>>
    /\ BatchIdle
    /\ \/ input \in ScoreInputs
       \/ input \in RowInputs
       \/ input \in LabelInputs
       \/ input \in ExtractInputs
       \/ input \in StatsInputs
       \/ input \in SaveInputs
       \/ input \in ParseInputs
    /\ output = NotYet
    /\ OutIdle

NextFn ==
    \/ ApplyCalculateScore
    \/ ApplyProcessRowTask
    \/ ApplyNormalizeLabel
    \/ ApplyExtractCompanies
    \/ ApplyCompanyStats
    \/ ApplySaveResults
    \/ ApplyGenerateSentimentLabel

SpecFn == InitFn /\ [][NextFn]_vars

(***************************************************************************)
(* Fifth system: one run of NewsPipeline.run behind the crawlers: the      *)
(* analysis phase, then save_results, then send_notification, on a machine *)
(* that may lack the code table and may hold the files of an earlier run.  *)
(***************************************************************************)
\* The statistics file an earlier run has left.
PriorStats ==
    [exists |-> TRUE,
     csv    |-> StatsCsv(<<[company            |-> CompanyKey(RefList[1]),
                            total_articles     |-> 1,
                            avg_weighted_score |-> [sum |-> 50, count |-> 1],
                            whole_news_content |-> <<>>,
                            company_summary    |-> [about |-> CompanyKey(RefList[1]),
                                                    len   |-> 40]]>>)]

NoCodes == [exists |-> FALSE, readable |-> FALSE, rows |-> <<>>]

InitRun ==
    /\ codesFile \in {CodesTable(RefList), NoCodes}
    /\ \/ historyFile = AbsentFile /\ statsFile = AbsentStats
       \/ historyFile = PriorHistory(RefList) /\ statsFile = PriorStats
    /\ mailbox = <<>>
    /\ lastCall = NoCall
    /\ calls = 0
    /\ run = [p \in Runs |-> IdleRun]
    /\ saves = <<>>
    /\ phase = "idle"
    /\ name2code = LoadCompanyCodes(codesFile)
    /\ finbert_pipe = FALSE
    /\ newsDf = NoTable
    /\ pool = <<>>
    /\ sub = <<>>
    /\ results = <<>>
    /\ completed = 0
    /\ expandedDf = <<>>
    /\ companyStats = <<>>
    /\ FnIdle

\* NewsPipeline.save_results(company_stats), once analyze_data has returned.
SaveResultsRun(date, saveOk) ==
    /\ phase = "done"
    /\ phase' = "saved"
    /\ \E out \in SaveResults(companyStats,
                              [stats_file |-> statsFile, history_file |-> historyFile,
                               codes_file |-> codesFile],
                              date, saveOk) :
          /\ statsFile' = out.stats_file
          /\ historyFile' = out.history_file
          /\ lastCall' = IF companyStats = <<>> THEN lastCall
                         ELSE [called  |-> TRUE,
                               date    |-> date,
                               daily   |-> DailyOf(companyStats),
                               before  |-> historyFile,
                               outcome |-> out.merge,
                               repeat  |-> FALSE]
    /\ UNCHANGED <<codesFile, calls, raceVars, newsDf, pool, sub, results, completed,
                   name2code, finbert_pipe, expandedDf, companyStats, fnVars, mailbox>>

\* A notification that is sent whenever the e-mail settings are there.
SendNotificationAlways(configured) ==
    /\ phase = "saved"
    /\ phase' = "notified"
    /\ mailbox' = IF configured
                  THEN Append(mailbox, [attachments |-> <<statsFile>>])
                  ELSE mailbox
    /\ UNCHANGED <<tsVars, raceVars, newsDf, pool, sub, results, completed,
                   name2code, finbert_pipe, expandedDf, companyStats, fnVars, statsFile>>

\* NewsPipeline.send_notification(company_stats): send_email with the statistics
\* file attached, when there are statistics and the e-mail settings are there.
SendNotification(configured) ==
    /\ phase = "saved"
    /\ phase' = "notified"
    /\ mailbox' = IF companyStats # <<>> /\ configured
                  THEN Append(mailbox, [attachments |-> <<statsFile>>])
                  ELSE mailbox
    /\ UNCHANGED <<tsVars, raceVars, newsDf, pool, sub, results, completed,
                   name2code, finbert_pipe, expandedDf, companyStats, fnVars, statsFile>>

NextRun ==
    \/ NextBatch
    \/ \E date \in Dates, saveOk \in BOOLEAN : SaveResultsRun(date, saveOk)
    \/ \E configured \in BOOLEAN : SendNotification(configured)

SpecRun == InitRun /\ [][NextRun]_vars

(***************************************************************************)
(* Reading the persisted file and the last call, for the properties below. *)
(* These look at the CSV text itself (header and lines), not at the data   *)
(* frames of the handler.                                                  *)
(***************************************************************************)
CsvCols(csv) == IF csv.header = <<>> THEN {} ELSE Range(Tail(csv.header))

CsvCompanies(csv) == [i \in 1..Len(csv.lines) |-> csv.lines[i][1]]

\* The field of the line of company k under column d.
CsvCell(csv, k, d) ==
    LET i == CHOOSE n \in 1..Len(csv.lines) : csv.lines[n][1] = k
        j == CHOOSE n \in 1..Len(csv.header) : csv.header[n] = d
    IN  csv.lines[i][j]

\* The company keys of the code table the last call found.
RefKeys ==
    IF codesFile.exists /\ codesFile.readable
    THEN {CompanyKey(codesFile.rows[i]) : i \in 1..Len(codesFile.rows)}
    ELSE {}

\* Today's records of company k, as positions in the list.
RecordsOf(daily, k) == {i \in 1..Len(daily.rows) : daily.rows[i].company = k}

Min(S) == CHOOSE x \in S : \A y \in S : x <= y
Max(S) == CHOOSE x \in S : \A y \in S : x >= y

\* The last call was a merge the properties speak about: the code table could be read
\* and today's records carry a score column.
MergeCalled ==
    /\ lastCall.called
    /\ codesFile.exists /\ codesFile.readable
    /\ (lastCall.daily.rows # <<>> => lastCall.daily.scoreCol # "none")

\* ... and its write was not refused by the file system.
MergeRan == MergeCalled /\ lastCall.outcome # "save_failed"

Persisted == lastCall.outcome = "saved" /\ historyFile.exists /\ historyFile.readable

C2_Completeness ==
    MergeRan =>
        /\ Persisted
        /\ Len(historyFile.csv.lines) = Cardinality(RefKeys)
        /\ Range(CsvCompanies(historyFile.csv)) = RefKeys
        /\ lastCall.date \in CsvCols(historyFile.csv)
        /\ LET covered == {k \in RefKeys : RecordsOf(lastCall.daily, k) # {}}
               scored  == {i \in 1..Len(historyFile.csv.lines) :
                              CsvCell(historyFile.csv, historyFile.csv.lines[i][1],
                                      lastCall.date) # Null}
           IN  /\ Cardinality(scored) = Cardinality(covered)
               /\ Len(historyFile.csv.lines) - Cardinality(scored)
                     = Cardinality(RefKeys) - Cardinality(covered)

(***************************************************************************)
(* C3. Rerun overwrite: when the date key of a merge is already a column   *)
(* of the persisted history, the column is rebuilt from today's records    *)
(* alone: a company absent from them ends with null, a company present     *)
(* ends with the rounded score of one of its records.                      *)
(***************************************************************************)
C3_RerunOverwrite ==
    (MergeRan /\ lastCall.before.exists
              /\ lastCall.date \in CsvCols(lastCall.before.csv)) =>
        /\ Persisted
        /\ \A k \in Range(CsvCompanies(historyFile.csv)) :
              LET cell == CsvCell(historyFile.csv, k, lastCall.date)
              IN  IF RecordsOf(lastCall.daily, k) = {}
                  THEN cell = Null
                  ELSE \E i \in RecordsOf(lastCall.daily, k) :
                          cell = Round2(lastCall.daily.rows[i].score)

(***************************************************************************)
(* C4. History preserved, as claimed: after a merge with date key d, every *)
(* other date column of the history file that was there before is still    *)
(* there, and holds for every reference company the value it held before.  *)
(* (Fails: a history file that exists but cannot be read is replaced by a  *)
(* fresh table.)                                                           *)
(***************************************************************************)
KeepsColumnsOf(before) ==
    \A d \in CsvCols(before.csv) \ {lastCall.date} :
        /\ historyFile.exists
        /\ d \in CsvCols(historyFile.csv)
        /\ \A k \in RefKeys \cap Range(CsvCompanies(before.csv)) :
              /\ k \in Range(CsvCompanies(historyFile.csv))
              /\ CsvCell(historyFile.csv, k, d) = CsvCell(before.csv, k, d)

C4_HistoryPreserved ==
    (lastCall.called /\ lastCall.before.exists) => KeepsColumnsOf(lastCall.before)

(***************************************************************************)
(* C4, amended: the same, provided the merge could read the history file.  *)
(***************************************************************************)
C4_HistoryPreservedWhenRead ==
    (lastCall.called /\ lastCall.before.exists /\ lastCall.before.readable)
        => KeepsColumnsOf(lastCall.before)

\* A saved merge over a readable history that held a score under another date.
C4_Witness ==
    /\ lastCall.called /\ lastCall.outcome = "saved"
    /\ lastCall.before.exists /\ lastCall.before.readable
    /\ \E d \in CsvCols(lastCall.before.csv) \ {lastCall.date} :
          \E k \in RefKeys \cap Range(CsvCompanies(lastCall.before.csv)) :
              CsvCell(lastCall.before.csv, k, d) # Null

(***************************************************************************)
(* C5. Duplicate today-records, as claimed: when a company appears more    *)
(* than once in today's records, the merge does not fail and the score     *)
(* written for it is the one of its LAST record.  (Fails: drop_duplicates  *)
(* keeps the first.)                                                       *)
(***************************************************************************)
Duplicated(daily) == {k \in RefKeys : Cardinality(RecordsOf(daily, k)) > 1}

C5_LastDuplicateWins ==
    (MergeRan /\ Duplicated(lastCall.daily) # {}) =>
        /\ Persisted
        /\ \A k \in Duplicated(lastCall.daily) :
              CsvCell(historyFile.csv, k, lastCall.date)
                 = Round2(lastCall.daily.rows[Max(RecordsOf(lastCall.daily, k))].score)

(***************************************************************************)
(* C5, amended: the merge does not fail and the score written for the      *)
(* company is the one of its FIRST record.                                 *)
(***************************************************************************)
C5_FirstDuplicateWins ==
    (MergeRan /\ Duplicated(lastCall.daily) # {}) =>
        /\ Persisted
        /\ \A k \in Duplicated(lastCall.daily) :
              CsvCell(historyFile.csv, k, lastCall.date)
                 = Round2(lastCall.daily.rows[Min(RecordsOf(lastCall.daily, k))].score)

\* A saved merge whose records name one company twice, with two different scores.
C5_Witness ==
    /\ MergeRan /\ Persisted
    /\ \E k \in Duplicated(lastCall.daily) :
          Round2(lastCall.daily.rows[Min(RecordsOf(lastCall.daily, k))].score)
             # Round2(lastCall.daily.rows[Max(RecordsOf(lastCall.daily, k))].score)

(***************************************************************************)
(* C6. History fallback: when the code table is readable and the history   *)
(* file is absent or cannot be read, the merge does not raise and persists *)
(* a table with exactly the reference rows and the one date column of the  *)
(* run.                                                                    *)
(***************************************************************************)
C6_HistoryFallback ==
    (MergeRan /\ ~(lastCall.before.exists /\ lastCall.before.readable)) =>
        /\ Persisted
        /\ historyFile.csv.header = <<"company", lastCall.date>>
        /\ CsvCompanies(historyFile.csv) = BaseDf(codesFile.rows)

(***************************************************************************)
(* C7. Unserialized runs are unsafe: of two runs with different date keys  *)
(* that both saved, the file ends with both date columns when the second   *)
(* writer read the file after the first had written it, and with the       *)
(* second writer's column only (the first writer's update is lost) when    *)
(* both had read before either wrote.                                      *)
(***************************************************************************)
C7_LostUpdateUnlessSerialized ==
    \A p, q \in Runs :
        (/\ saves = <<p, q>>
         /\ run[p].date # run[q].date) =>
            /\ run[q].date \in CsvCols(historyFile.csv)
            /\ run[p].date \in CsvCols(historyFile.csv) <=> run[q].seen = 1

\* Both runs read before either wrote, both wrote, and one date column is missing.
C7_Witness ==
    \E p, q \in Runs :
        /\ saves = <<p, q>>
        /\ run[p].seen = 0 /\ run[q].seen = 0
        /\ run[p].date # run[q].date
        /\ run[p].date \notin CsvCols(historyFile.csv)
        /\ run[q].date \in CsvCols(historyFile.csv)

(***************************************************************************)
(* Reading a finished stage of the analysis phase, for the properties      *)
(* below.                                                                  *)
(***************************************************************************)
ArticleIds == 1..Len(newsDf.news)

\* What the as_completed loop makes of a future: its value, or the default of the
\* stage when it raised.
OutcomeOf(future, default) == IF future.raised THEN default ELSE future.value[1]

\* process_summaries returns in this step.
SummariesReturn == phase = "summaries" /\ phase' = "summarized"

\* process_sentiment_and_translation returns in this step.
ScoresReturn == phase = "sentiment" /\ phase' = "scored"

SubTaskRaised(i) == sub[i].llm.raised \/ sub[i].trans.raised

(***************************************************************************)
(* C8. Order preservation under concurrency: whatever the order in which   *)
(* the tasks complete, when process_summaries returns the summary at       *)
(* position i is the outcome of the task that was given article i's title  *)
(* and content, when process_sentiment_and_translation returns the score   *)
(* record at position i is the outcome of the task that was given the      *)
(* summary at position i, and the article table is still in input order.   *)
(***************************************************************************)
C8_OrderPreserved ==
    [][/\ SummariesReturn =>
            \A i \in ArticleIds :
                /\ pool[i].arg.row = newsDf.news[i]
                /\ newsDf'.summary[i] = OutcomeOf(pool[i], [summary |-> EmptyText]).summary
                /\ newsDf'.summary[i].about \in {0, newsDf.news[i].title}
       /\ ScoresReturn =>
            \A i \in ArticleIds :
                /\ pool[i].arg.row.summary = newsDf.summary[i]
                /\ newsDf'.score[i] = OutcomeOf(pool[i], DefaultRecord)
                /\ newsDf'.score[i].translation.about \in {0, newsDf.summary[i].about}
       /\ (SummariesReturn \/ ScoresReturn) =>
            /\ newsDf'.news = newsDf.news
            /\ \A i \in ArticleIds : newsDf.news[i] = Article(i)
            /\ Len(newsDf'.summary) = Len(newsDf.news)]_vars

\* The summaries are in place, the second article's score record was collected
\* while the first article's task is still running, and both carry their own text.
C8_Witness ==
    /\ phase = "sentiment"
    /\ Len(newsDf.news) >= 2
    /\ \A i \in ArticleIds : newsDf.summary[i].about = newsDf.news[i].title
    /\ pool[1].state = "running"
    /\ pool[2].state = "collected"
    /\ 2 \in DOMAIN results
    /\ results[2].translation.about = newsDf.news[2].title

(***************************************************************************)
(* C9. The pipeline always completes: when every call returns or raises in *)
(* the end, the analysis phase reaches its end whichever calls fail; and   *)
(* each batch stage (summaries, scoring, company narratives), once all its *)
(* tasks are collected, holds one result for each item, each collected     *)
(* once.                                                                   *)
(***************************************************************************)
C9_PipelineCompletes ==
    /\ <>(phase = "done")
    /\ [](AllCollected => /\ DOMAIN results = Items
                          /\ completed = Cardinality(Items))
    /\ [](phase \in {"summarized", "sentiment", "scored", "narratives", "done"} =>
             Len(newsDf.summary) = Len(newsDf.news))
    /\ [](phase \in {"scored", "narratives", "done"} /\ Len(newsDf.news) > 0 =>
             Len(newsDf.score) = Len(newsDf.news))

\* The analysis phase is over; one article lost its summary, another one its score
\* record, and the narrative of one of the two companies was dropped.
C9_Witness ==
    /\ phase = "done"
    /\ \E i, j \in ArticleIds :
          /\ newsDf.summary[i] = EmptyText
          /\ newsDf.summary[j] # EmptyText
          /\ newsDf.score[j] = DefaultRecord
    /\ \E r \in Range(expandedDf) : r.company = CompanyKey(RefList[2])
    /\ Len(companyStats) = 1

(***************************************************************************)
(* C10. Article-level default on sub-task failure: when                    *)
(* process_sentiment_and_translation returns, the score record of every    *)
(* article one of whose two sub-tasks raised is exactly the default record *)
(* (neu, 0.5, 0.5 for both classifiers, empty translation, final_score     *)
(* 0.5), whatever the other sub-task returned, and the record of every     *)
(* other article is the one computed from what its own two sub-tasks       *)
(* returned.                                                               *)
(***************************************************************************)
C10_DefaultOnSubTaskFailure ==
    [][ScoresReturn =>
          \A i \in ArticleIds :
              newsDf'.score[i] =
                  IF SubTaskRaised(i)
                  THEN DefaultRecord
                  ELSE ScoreRecord(sub[i].llm.value[1], sub[i].trans.value[1])]_vars

\* Every row is collected: the primary sub-task of one article raised while its
\* other sub-task returned a translation and a negative label, its record is the
\* default, and another article keeps the record fused from its own values.
C10_Witness ==
    /\ phase = "sentiment"
    /\ AllCollected
    /\ \E i, j \in Items :
          /\ i # j
          /\ sub[i].llm.raised
          /\ ~sub[i].trans.raised
          /\ sub[i].trans.value[1].label = "neg"
          /\ results[i] = DefaultRecord
          /\ ~SubTaskRaised(j)
          /\ results[j].ai_label = "pos"
          /\ results[j].final_score # DefaultRecord.final_score

(***************************************************************************)
(* Properties of the scoring functions (fourth system).                    *)
(***************************************************************************)
FnApplied(fn) == input.fn = fn /\ output # NotYet

\* C11 (score ordering): for every confidence c in [0, 1],
\* calculate_score("pos", c) >= calculate_score("neu", c) >= calculate_score("neg", c).
C11_ScoreOrdering ==
    (FnApplied("calculate_score") /\ input.arg.confidence \in UnitConfidences) =>
        LET c == input.arg.confidence
            score(l) == IF l = input.arg.label THEN output[1] ELSE CalculateScore(l, c)
        IN  score("pos") >= score("neu") /\ score("neu") >= score("neg")

\* C11, as the code has it: the ordering holds for every confidence c in [0.33, 1],
\* where the term of the formula is not negative, and is reversed below 0.33:
\* calculate_score("pos", c) < calculate_score("neu", c) < calculate_score("neg", c).
C11_ScoreOrderingFromOneThird ==
    FnApplied("calculate_score") =>
        LET c == input.arg.confidence
            score(l) == IF l = input.arg.label THEN output[1] ELSE CalculateScore(l, c)
        IN  IF c >= 33
            THEN score("pos") >= score("neu") /\ score("neu") >= score("neg")
            ELSE score("pos") < score("neu") /\ score("neu") < score("neg")

\* calculate_score("pos", 0.9) was applied and lies above the neutral score.
C11_Witness ==
    /\ FnApplied("calculate_score")
    /\ input.arg = [label |-> "pos", confidence |-> 90]
    /\ output[1] > CalculateScore("neu", 90)

\* C12 (score range): after scoring, the final_score of every article lies in [0, 1],
\* for every label and confidence the primary parse and the secondary classifier
\* can deliver, the default record included.
C12_ScoreRange ==
    FnApplied("process_row_task") => output[1].final_score \in 0..100

\* The range holds for the rows whose primary confidence lies in [0, 1].
ScoreRangeOfUnitConfidences ==
    (FnApplied("process_row_task") /\ output[1].llm_confidence \in UnitConfidences) =>
        output[1].final_score \in 0..100

\* The documented synonyms of each canonical label, in the three letter cases of
\* RawLabels.
Synonyms(canonical) ==
    CASE canonical = "pos" ->
           {"positive", "Positive", "POSITIVE", "pos", "Pos", "POS", "U+6B63U+9762"}
      [] canonical = "neu" ->
           {"neutral", "Neutral", "NEUTRAL", "neu", "Neu", "NEU", "U+4E2DU+6027"}
      [] canonical = "neg" ->
           {"negative", "Negative", "NEGATIVE", "neg", "Neg", "NEG", "U+8CA0U+9762"}

\* C13 (label normalization): _normalize_label returns a member of {pos, neu, neg}
\* for every input, returns a canonical label unchanged (it is idempotent), and maps
\* every documented synonym, in any letter case, to its canonical label; every label
\* stored on an article after scoring is in {pos, neu, neg}.
C13_LabelNormalization ==
    /\ FnApplied("_normalize_label") =>
         /\ output[1] \in Labels
         /\ input.arg \in Labels => output[1] = input.arg
         /\ NormalizeLabel(output[1]) = output[1]
         /\ \A canonical \in Labels :
              input.arg \in Synonyms(canonical) => output[1] = canonical
    /\ FnApplied("process_row_task") =>
         /\ output[1].ai_label \in Labels
         /\ output[1].finbert_label \in Labels

\* An upper-case synonym was normalized to its canonical label.
C13_Witness ==
    /\ FnApplied("_normalize_label")
    /\ input.arg = "NEGATIVE"
    /\ output[1] = "neg"

(***************************************************************************)
(* Properties of company extraction, expansion and aggregation.            *)
(***************************************************************************)
\* The gate on one written mention, and the keys of the mentions that pass it.
Accepted(mention, n2c) ==
    /\ NormalizeCompanyName(mention.name) \in DOMAIN n2c
    /\ n2c[NormalizeCompanyName(mention.name)] = mention.code

AcceptedKeys(written, n2c) ==
    LET Passes(mention) == Accepted(mention, n2c)
        kept == SelectSeq(written, Passes)
    IN  [k \in 1..Len(kept) |->
           NormalizeCompanyName(kept[k].name) \o "(" \o kept[k].code \o ")"]

\* C14 (company acceptance gate): extract_companies_from_text returns a key for a
\* mention Name(Code) only if the normalized name is a key of the reference table
\* and the code equals the table's code for it; every other mention is dropped
\* without dropping the remaining mentions.  Alpha(1111)、Beta(2222) with the table
\* {Alpha -> 1111, Beta -> 9999} yields exactly [Alpha(1111)].
C14_AcceptanceGate ==
    FnApplied("extract_companies_from_text") =>
        output[1] = AcceptedKeys(input.arg.written, input.arg.name2code)

\* The gate decides mention by mention when every code of the clause is a number.
AcceptanceGateOfNumericCodes ==
    (/\ FnApplied("extract_companies_from_text")
     /\ \A k \in 1..Len(input.arg.written) : IsDigits(input.arg.written[k].code)) =>
        output[1] = AcceptedKeys(input.arg.written, input.arg.name2code)

\* The example of the spec.
AcceptanceGateExample ==
    (/\ FnApplied("extract_companies_from_text")
     /\ input.arg.written = <<[name |-> <<"Alpha">>, code |-> "1111"],
                              [name |-> <<"Beta">>, code |-> "2222"]>>
     /\ DOMAIN input.arg.name2code # {}
     /\ input.arg.name2code["Beta"] = "9999") =>
        output[1] = <<"Alpha(1111)">>

\* expand_news_by_company and calculate_company_sentiment_stats have returned.
Expanded == phase \in {"narratives", "done", "saved", "notified"}

\* The expanded rows of article i, and the distinct companies extraction accepts in
\* its summary.
RowsOf(i) == {r \in 1..Len(expandedDf) : expandedDf[r].idx = i}
AcceptedOf(i) == Range(ExtractCompaniesFromText(newsDf.summary[i], name2code))

\* C15 (expansion row count): every article gets exactly k expanded rows when it has
\* k >= 1 distinct accepted companies, rows that differ only in the company, and
\* exactly one row with a null company when it has none; rows with a null company
\* are never counted in total_articles.
C15_ExpansionRowCount ==
    Expanded =>
        /\ \A i \in ArticleIds :
              /\ {expandedDf[r].company : r \in RowsOf(i)} =
                     IF AcceptedOf(i) = {} THEN {NoneCompany} ELSE AcceptedOf(i)
              /\ Cardinality(RowsOf(i)) =
                     IF AcceptedOf(i) = {} THEN 1 ELSE Cardinality(AcceptedOf(i))
              /\ \A r \in RowsOf(i) :
                    /\ expandedDf[r].summary = newsDf.summary[i]
                    /\ expandedDf[r].final_score = newsDf.score[i].final_score
        /\ \A p \in 1..Len(companyStats) :
              /\ companyStats[p].company # NoneCompany
              /\ companyStats[p].total_articles =
                     Cardinality({r \in 1..Len(expandedDf) :
                                    /\ expandedDf[r].company # NoneCompany
                                    /\ expandedDf[r].company = companyStats[p].company})

\* The same, for the batches in which no two articles have the same summary text.
ExpansionRowCountOfDistinctSummaries ==
    (/\ Expanded
     /\ \A i, j \in ArticleIds : newsDf.summary[i] = newsDf.summary[j] => i = j) =>
        C15_ExpansionRowCount

\* The rows of a table that hold company c, and the row of the statistics for c.
RowsWith(rows, c) == {r \in 1..Len(rows) : rows[r].company = c}

\* The articles of the scored table df in whose summary extraction accepts c.
ArticlesWith(df, c) ==
    {i \in 1..Len(df.news) :
        c \in Range(ExtractCompaniesFromText(df.summary[i], LoadCompanyCodes(CodesTable(RefList))))}

\* C16 (no double counting): after expansion no two expanded rows share the same
\* (summary, company) pair, so an article whose clause repeats the same accepted
\* company contributes exactly 1 to the total_articles of that company and its
\* final_score enters the mean of the company exactly once.
C16_NoDoubleCounting ==
    FnApplied("calculate_company_sentiment_stats") =>
        LET df == input.arg
            expanded == output[1].expanded_df
            stats == output[1].company_stats
        IN  /\ \A r, q \in 1..Len(expanded) :
                  (/\ expanded[r].summary = expanded[q].summary
                   /\ expanded[r].company = expanded[q].company) => r = q
            /\ \A p \in 1..Len(stats) : \A i \in ArticlesWith(df, stats[p].company) :
                  Cardinality({r \in RowsWith(expanded, stats[p].company) :
                                  expanded[r].idx = i}) = 1
            /\ \A p \in 1..Len(stats) :
                  /\ stats[p].total_articles =
                         Cardinality(ArticlesWith(df, stats[p].company))
                  /\ stats[p].avg_weighted_score.count =
                         Cardinality(ArticlesWith(df, stats[p].company))

\* The same, for the tables in which no two articles have the same summary text.
NoDoubleCountingOfDistinctSummaries ==
    (/\ FnApplied("calculate_company_sentiment_stats")
     /\ \A i, j \in 1..Len(input.arg.news) :
           input.arg.summary[i] = input.arg.summary[j] => i = j) =>
        C16_NoDoubleCounting

\* The sum of the final scores of a set of rows.
RECURSIVE ScoreSum(_, _)
ScoreSum(rows, S) ==
    IF S = {} THEN 0
    ELSE LET r == CHOOSE x \in S : TRUE
         IN  rows[r].final_score + ScoreSum(rows, S \ {r})

\* C17 (aggregation): there is exactly one company record per distinct non-null
\* company of the expanded rows; its total_articles is the number of expanded rows
\* with that company and its avg_weighted_score is the arithmetic mean of their
\* final scores; rows with a null company contribute nothing.
C17_Aggregation ==
    FnApplied("calculate_company_sentiment_stats") =>
        LET expanded == output[1].expanded_df
            stats == output[1].company_stats
        IN  /\ {stats[p].company : p \in 1..Len(stats)} =
                   {expanded[r].company : r \in 1..Len(expanded)} \ {NoneCompany}
            /\ \A p, q \in 1..Len(stats) : stats[p].company = stats[q].company => p = q
            /\ \A p \in 1..Len(stats) :
                  LET of == RowsWith(expanded, stats[p].company)
                  IN  /\ stats[p].total_articles = Cardinality(of)
                      /\ stats[p].avg_weighted_score.count = Cardinality(of)
                      /\ stats[p].avg_weighted_score.sum = ScoreSum(expanded, of)

\* Alpha(1111) has two expanded rows, with the scores 0.50 and 0.51.
C17_Witness ==
    /\ FnApplied("calculate_company_sentiment_stats")
    /\ \E p \in 1..Len(output[1].company_stats) :
          /\ output[1].company_stats[p].company = "Alpha(1111)"
          /\ output[1].company_stats[p].total_articles = 2
          /\ output[1].company_stats[p].avg_weighted_score = [sum |-> 101, count |-> 2]

(***************************************************************************)
(* Properties of the narrative stage (third system).                       *)
(***************************************************************************)
\* add_company_summary returns.
NarrativesReturn == phase = "narratives" /\ phase' = "done"

\* The task of a company made one narrative call that answered with a text of 5
\* characters or more, and one validation call that answered YES.
Passing(future) ==
    /\ ~future.raised
    /\ Len(future.calls) = 2
    /\ future.calls[1].ok
    /\ future.calls[1].len >= 5
    /\ future.calls[2].verdict = "YES"

\* C18 (validation gate): a company record is in the final statistics if and only
\* if its narrative was generated and the validation verdict passed; a verdict that
\* does not pass, a narrative that is too short, or a narrative or validation call
\* that raises leaves the record out.  There is no second attempt and no
\* placeholder narrative.
C18_ValidationGate ==
    [][NarrativesReturn =>
          /\ \A i \in Items :
                /\ Len(pool[i].calls) <= 2
                /\ \A k \in 1..Len(pool[i].calls) :
                      pool[i].calls[k].prompt =
                          IF k = 1 THEN "COMPANY_SUMMARY" ELSE "SUMMARY_VALIDATION"
          /\ LET kept == {p \in 1..Len(companyStats) : Passing(pool[companyStats[p].idx])}
                 Final(r) ==
                     [idx                |-> r.idx,
                      company            |-> r.company,
                      total_articles     |-> r.total_articles,
                      avg_weighted_score |-> r.avg_weighted_score,
                      whole_news_content |-> r.whole_news_content,
                      company_summary    |-> [about |-> r.company,
                                              len   |-> pool[r.idx].calls[1].len]]
             IN  companyStats' =
                     SubSeqAt([p \in 1..Len(companyStats) |->
                                  IF p \in kept THEN Final(companyStats[p])
                                  ELSE companyStats[p]], kept)]_vars

\* Two companies were aggregated and one of them is left in the final statistics.
C18_Witness ==
    /\ phase = "done"
    /\ Cardinality({expandedDf[r].company : r \in 1..Len(expandedDf)} \ {NoneCompany}) = 2
    /\ Len(companyStats) = 1

(***************************************************************************)
(* Properties of the persisted statistics (fourth system).                 *)
(***************************************************************************)
\* The lines of the statistics file save_results wrote.
StatsLines == output[1].stats_file.csv.lines

\* C19 (output order): the rows of the persisted per-company statistics are in
\* non-increasing order of avg_weighted_score, whatever order the aggregation and
\* the narrative stage produced them in.
C19_OutputOrder ==
    (FnApplied("save_results") /\ output[1].stats_file.exists) =>
        /\ \A i \in 1..(Len(StatsLines) - 1) :
              StatsLines[i].avg_weighted_score.numerator
                    * StatsLines[i + 1].avg_weighted_score.denominator >=
                  StatsLines[i + 1].avg_weighted_score.numerator
                    * StatsLines[i].avg_weighted_score.denominator
        /\ {StatsLines[i].company : i \in 1..Len(StatsLines)} =
               {input.arg.stats[p].company : p \in 1..Len(input.arg.stats)}
        /\ Len(StatsLines) = Len(input.arg.stats)

\* The statistics came with the lower mean first and were written with the higher
\* mean first.
C19_Witness ==
    /\ FnApplied("save_results")
    /\ Len(input.arg.stats) = 2
    /\ input.arg.stats[1].avg_weighted_score = [sum |-> 50, count |-> 1]
    /\ input.arg.stats[2].avg_weighted_score = [sum |-> 101, count |-> 2]
    /\ StatsLines[1].company = input.arg.stats[2].company

\* C20 (stats rounding): every avg_weighted_score of the persisted per-company
\* statistics is rounded to 2 decimal places (the mean of 0.50 and 0.51 is persisted
\* with two decimals, not as 0.505).
C20_StatsRounding ==
    (FnApplied("save_results") /\ output[1].stats_file.exists) =>
        \A i \in 1..Len(StatsLines) : StatsLines[i].avg_weighted_score.denominator = 1

(***************************************************************************)
(* Properties of the row universe of the history (first system).           *)
(***************************************************************************)
\* The companies that have a line in a file a merge could read.
CompaniesIn(file) ==
    IF file.exists /\ file.readable THEN Range(CsvCompanies(file.csv)) ELSE {}

\* C28 (row universe equals the reference table): after a merge that saved, the
\* company keys of the persisted table are exactly the keys of the current code
\* table; a company that had a row in the prior history and is no longer in the
\* code table is gone with all of its past values, and a company that is new in the
\* code table has a row with null under every earlier date.
C28_RowUniverse ==
    (lastCall.called /\ lastCall.outcome = "saved") =>
        /\ Range(CsvCompanies(historyFile.csv)) = RefKeys
        /\ \A i \in 1..Len(historyFile.csv.lines) :
              historyFile.csv.lines[i][1] \notin CompaniesIn(lastCall.before) =>
                  \A j \in 2..Len(historyFile.csv.header) :
                      historyFile.csv.header[j] # lastCall.date =>
                          historyFile.csv.lines[i][j] = Null
        /\ \A i \in 1..Len(historyFile.csv.lines) :
              Len(historyFile.csv.lines[i]) = Len(historyFile.csv.header)

\* A saved merge that removed a company which held a score in the prior history
\* and gave a row of nulls to a company the prior history did not have.
C28_Witness ==
    /\ lastCall.called /\ lastCall.outcome = "saved"
    /\ \E k \in CompaniesIn(lastCall.before) \ RefKeys :
          \E d \in CsvCols(lastCall.before.csv) : CsvCell(lastCall.before.csv, k, d) # Null
    /\ \E k \in RefKeys \ CompaniesIn(lastCall.before) :
          \E d \in CsvCols(historyFile.csv) \ {lastCall.date} :
              CsvCell(historyFile.csv, k, d) = Null

(***************************************************************************)
(* Properties of the parse of the primary classification (fourth system).  *)
(***************************************************************************)
\* The structured parse delivers a label and a numeric confidence.
StructuredDelivers(content) ==
    /\ JsonLoads(content) = "dict"
    /\ content.label.kind = "string"
    /\ content.confidence.kind \in {"number", "quoted"}

\* C24 (parse cascade): whenever the structured parse of the answer does not
\* deliver both a label and a numeric confidence (an object whose confidence is not
\* a number included), generate_sentiment_label returns what the pattern extraction
\* finds in the raw text, so the default (neu, 0.5) only if it finds neither a label
\* token nor a confidence number; it returns a canonical label in every case and
\* never raises.
C24_ParseCascade ==
    FnApplied("generate_sentiment_label") =>
        /\ output[1].label \in Labels
        /\ (input.arg.ok /\ ~StructuredDelivers(input.arg)) =>
              output[1] = RegexFallback(input.arg)

\* The same for the answers the structured parse cannot read at all
\* (JSONDecodeError) or reads as something that is no object.
ParseCascadeOfUnreadableAnswers ==
    (FnApplied("generate_sentiment_label") /\ input.arg.ok
        /\ JsonLoads(input.arg) # "dict") =>
        output[1] = RegexFallback(input.arg)

\* An object that names a label and gives a word for its confidence.
ParseCascadeOfWordConfidence ==
    (FnApplied("generate_sentiment_label")
        /\ input.arg = Content("none", "object", StringLabel("Positive"),
                               [kind |-> "word", value |-> 0])) =>
        output[1] = [label |-> "pos", confidence |-> 50]

\* An object whose confidence is missing is answered as the pattern extraction
\* would answer it.
ParseCascadeOfMissingConfidence ==
    (FnApplied("generate_sentiment_label") /\ input.arg.ok
        /\ JsonLoads(input.arg) = "dict" /\ input.arg.confidence.kind = "absent") =>
        output[1] = RegexFallback(input.arg)

(***************************************************************************)
(* Properties of the analysis phase: failures, the join of the two         *)
(* sub-tasks, the calls of the generation service (third system).          *)
(***************************************************************************)
\* The summary of article i is the empty string.
NoSummary(i) == newsDf.summary[i] = EmptyText

\* C21 (summarization failure): when the generation-service call for an article
\* fails, generate_summary returns the empty string without a second call; the
\* article stays in the batch with an empty summary, gets zero accepted companies,
\* and appears in the expanded rows with a null company.
C21_SummarizationFailure ==
    /\ phase = "summaries" =>
          \A i \in Items :
              (pool[i].state \in {"done", "collected"} /\ ~pool[i].raised) =>
                  /\ Len(pool[i].calls) = 1
                  /\ ~pool[i].calls[1].ok => pool[i].value[1].summary = EmptyText
    /\ Expanded =>
          /\ Len(newsDf.summary) = Len(newsDf.news)
          /\ \A i \in ArticleIds :
                NoSummary(i) =>
                    /\ AcceptedOf(i) = {}
                    /\ \E r \in RowsOf(i) : expandedDf[r].company = NoneCompany

\* The same, for the batches in which at most one article is without a summary.
SummarizationFailureOfOneArticle ==
    (Expanded => \A i, j \in ArticleIds : (NoSummary(i) /\ NoSummary(j)) => i = j)
        => C21_SummarizationFailure

\* C25 (fork/join barrier): in every interleaving process_row_task ends only when
\* both of its sub-tasks have finished; its record is fused from the values of
\* both, and it raises, when a sub-task raised, only after the other sub-task has
\* finished too.
C25_ForkJoinBarrier ==
    [][\A i \in Items :
          (phase = "sentiment" /\ phase' = "sentiment"
             /\ pool[i].state = "running" /\ pool'[i].state = "done") =>
              /\ sub[i].llm.state = "done"
              /\ sub[i].trans.state = "done"
              /\ pool'[i].raised <=> SubTaskRaised(i)
              /\ ~pool'[i].raised =>
                    /\ pool'[i].value[1] =
                           ScoreRecord(sub[i].llm.value[1], sub[i].trans.value[1])
                    /\ pool'[i].value[1].final_score =
                           FinalScore(CalculateScore(sub[i].llm.value[1].label,
                                                     sub[i].llm.value[1].confidence),
                                      CalculateScore(sub[i].trans.value[1].label,
                                                     sub[i].trans.value[1].confidence))]_vars

\* A row task has raised because its primary sub-task raised, after its other
\* sub-task returned; another row task waits for its translation although its
\* primary sub-task has a result.
C25_Witness ==
    /\ phase = "sentiment"
    /\ \E i, j \in Items :
          /\ pool[i].state = "done" /\ pool[i].raised
          /\ sub[i].llm.raised
          /\ sub[i].trans.state = "done" /\ ~sub[i].trans.raised
          /\ pool[j].state = "running"
          /\ sub[j].llm.state = "done" /\ ~sub[j].llm.raised
          /\ sub[j].trans.state = "running"

\* C26 (concurrency cap): in every stage and at every moment of a run, the number
\* of generation-service calls in flight is at most MAX_WORKERS.
C26_ConcurrencyCap == CallsInFlight <= MAX_WORKERS

\* The cap holds in the summary stage and in the narrative stage ...
ConcurrencyCapOfSingleCallStages ==
    phase # "sentiment" => CallsInFlight <= MAX_WORKERS

\* ... and the scoring stage holds twice as many calls at most.
ConcurrencyCapOfScoring == CallsInFlight <= 2 * MAX_WORKERS

\* The order of the stages of analyze_data.
StageOrder ==
    { <<"idle", "summaries">>, <<"idle", "done">>, <<"summaries", "summarized">>,
      <<"summarized", "sentiment">>, <<"sentiment", "scored">>,
      <<"scored", "narratives">>, <<"scored", "done">>, <<"narratives", "done">> }

\* A step that changes the stage follows the order, and leaves a batch stage only
\* with a result for every item.
StageStep ==
    phase' # phase =>
        /\ <<phase, phase'>> \in StageOrder
        /\ phase \in {"summaries", "sentiment", "narratives"} =>
              /\ AllCollected
              /\ DOMAIN results = Items

\* A task that has ended stays ended and makes no further call.
NoSecondAttempt ==
    phase' = phase =>
        /\ DOMAIN pool' = DOMAIN pool
        /\ \A i \in Items :
              pool[i].state \in {"done", "collected"} =>
                  /\ pool'[i].state \in {"done", "collected"}
                  /\ pool'[i].calls = pool[i].calls
        /\ \A i \in DOMAIN sub :
              /\ sub[i].llm.state = "done" => sub'[i].llm = sub[i].llm
              /\ sub[i].trans.state = "done" => sub'[i].trans = sub[i].trans

\* The calls with prompt p in a log of call records.
CallsWith(log, p) == {k \in 1..Len(log) : log[k].prompt = p}

\* The calls a task has made when it has ended: summaries calls per summary task
\* (a set of allowed numbers), at most one call per sub-task, at most one narrative
\* and one validation call per narrative task.
CallsMade(summaries) ==
    /\ phase = "summaries" =>
          \A i \in Items :
              pool[i].state \in {"done", "collected"} =>
                  /\ Len(pool[i].calls) \in summaries
                  /\ \A k \in 1..Len(pool[i].calls) : pool[i].calls[k].prompt = "NEWS_SUMMARY"
    /\ phase = "sentiment" =>
          \A i \in DOMAIN sub :
              /\ sub[i].llm.state = "done" =>
                    /\ Len(sub[i].llm.calls) <= 1
                    /\ \A k \in 1..Len(sub[i].llm.calls) :
                          sub[i].llm.calls[k] = "SENTIMENT_ANALYSIS"
              /\ sub[i].trans.state = "done" =>
                    /\ Len(sub[i].trans.calls) <= 1
                    /\ \A k \in 1..Len(sub[i].trans.calls) :
                          sub[i].trans.calls[k] = "TRANSLATION"
    /\ phase = "narratives" =>
          \A i \in Items :
              pool[i].state \in {"done", "collected"} =>
                  /\ Cardinality(CallsWith(pool[i].calls, "COMPANY_SUMMARY")) <= 1
                  /\ Cardinality(CallsWith(pool[i].calls, "SUMMARY_VALIDATION")) <= 1
                  /\ Len(pool[i].calls) <= 2

\* One future per article in the summary stage and in the scoring stage.
OneTaskPerItem ==
    /\ phase \in {"summaries", "sentiment"} => DOMAIN pool = ArticleIds
    /\ phase = "narratives" => Cardinality(DOMAIN pool) <= Cardinality(AllKeys)

CodesMissing == ~(codesFile.exists /\ codesFile.readable)

\* C22 (missing reference table): when the reference company table cannot be
\* loaded, extract_companies_from_text returns the empty list for every article and
\* the analysis still runs to its end: every article becomes a row with a null
\* company, the company stats are empty and no narrative stage is entered.
C22_MissingReferenceTable ==
    CodesMissing =>
        /\ DOMAIN name2code = {}
        /\ Expanded =>
              /\ \A i \in ArticleIds :
                    /\ ExtractCompaniesFromText(newsDf.summary[i], name2code) = <<>>
                    /\ Cardinality(RowsOf(i)) = 1
                    /\ \A r \in RowsOf(i) : expandedDf[r].company = NoneCompany
              /\ companyStats = <<>>
              /\ phase # "narratives"

\* The same, for the batches in which no two articles have the same summary text.
MissingReferenceTableOfDistinctSummaries ==
    (Expanded => \A i, j \in ArticleIds : newsDf.summary[i] = newsDf.summary[j] => i = j)
        => C22_MissingReferenceTable

\* load_news_data has returned an empty table.
NothingLoaded == phase # "idle" /\ Len(newsDf.news) = 0

\* C23 (no input): when no input record is loaded, the analysis returns empty
\* tables without a summarization, scoring or narrative task, and the downstream
\* steps are skipped: save_results writes no statistics file and merges nothing
\* into the time series, and send_notification sends nothing.
C23_NoInput ==
    /\ [](NothingLoaded =>
             /\ phase \in {"done", "saved", "notified"}
             /\ pool = <<>> /\ sub = <<>> /\ results = <<>>
             /\ newsDf = NoTable /\ expandedDf = <<>> /\ companyStats = <<>>
             /\ ~lastCall.called
             /\ mailbox = <<>>)
    /\ [][NothingLoaded => UNCHANGED <<statsFile, historyFile, lastCall, mailbox>>]_vars

\* A run without input that has gone through save_results and send_notification
\* on a machine that holds the files of an earlier run.
C23_Witness ==
    /\ NothingLoaded
    /\ phase = "notified"
    /\ statsFile = PriorStats
    /\ historyFile = PriorHistory(RefList)

\* save_results has returned.
Saved == phase \in {"saved", "notified"}

\* The companies with accepted articles in this run, and the ones of them whose
\* narrative passed the validation gate.
Scored == {expandedDf[r].company : r \in 1..Len(expandedDf)} \ {NoneCompany}
Validated ==
    {companyStats[p].company :
        p \in {q \in 1..Len(companyStats) : companyStats[q].company_summary # NoneNarrative}}

\* The mean add_company_summary returned for company k.
ScoreOf(k) ==
    LET p == CHOOSE q \in 1..Len(companyStats) : companyStats[q].company = k
    IN  Round2(MeanThousandths(companyStats[p].avg_weighted_score))

\* C29 (the time series records only validated companies): in a run that saved
\* today's column, the column holds a score exactly for the companies of the final
\* stats table and null for every other company of the table, also for a company
\* with accepted articles whose narrative the validation gate dropped; a run that
\* saved no column holds no score of today at all.
C29_OnlyValidatedCompanies ==
    Saved =>
        IF lastCall.called /\ lastCall.outcome = "saved"
        THEN /\ lastCall.date \in CsvCols(historyFile.csv)
             /\ Validated \subseteq Range(CsvCompanies(historyFile.csv))
             /\ \A k \in Range(CsvCompanies(historyFile.csv)) :
                   CsvCell(historyFile.csv, k, lastCall.date) =
                       IF k \in Validated THEN ScoreOf(k) ELSE Null
        ELSE CsvCols(historyFile.csv) \cap Dates = {}

\* A saved run in which one company passed the gate and another company, with
\* accepted articles, was dropped by it.
C29_Witness ==
    /\ Saved
    /\ lastCall.called /\ lastCall.outcome = "saved"
    /\ Validated # {}
    /\ \E k \in Scored \ Validated :
          CsvCell(historyFile.csv, k, lastCall.date) = Null

\* Articles were loaded and no company is left in the final stats table.
EmptyResult == phase # "idle" /\ Len(newsDf.news) > 0 /\ companyStats = <<>>

\* C30 (no write on an empty result): in a run where articles were loaded but no
\* company record survives, save_results writes neither the stats file nor the
\* time-series table: both files stay exactly as the previous run left them, and
\* the history gains no column for that date.
C30_NoWriteOnEmptyResult ==
    /\ [][(EmptyResult /\ phase = "done" /\ phase' = "saved") =>
             UNCHANGED <<statsFile, historyFile, lastCall>>]_vars
    /\ []((EmptyResult /\ Saved) =>
             /\ <<statsFile, historyFile>> \in
                    {<<AbsentStats, AbsentFile>>, <<PriorStats, PriorHistory(RefList)>>}
             /\ CsvCols(historyFile.csv) \cap Dates = {}
             /\ ~lastCall.called)

\* save_results has returned in a run on the files of an earlier run in which
\* companies had accepted articles and every narrative was dropped.
C30_Witness ==
    /\ EmptyResult /\ Saved
    /\ Scored # {}
    /\ statsFile = PriorStats
    /\ historyFile = PriorHistory(RefList)

====
